---- MODULE Spec2Model ----
(***************************************************************************)
(* Membership bindings and management-plane privileges of the RBAC          *)
(* reconciliation core (pkg/controllers/management/auth/manager.go).        *)
(*                                                                          *)
(* The object store (API server) and the informer cache the handlers read   *)
(* from are separate: a handler reads listers and indexers (the cache) and  *)
(* writes through the typed clients (the store); the informer delivers the  *)
(* store's changes to the cache later (Sync).  A handler runs to completion *)
(* synchronously, so one action is one handler call.                        *)
(***************************************************************************)
EXTENDS Integers, Sequences, FiniteSets, TLC

(* ------------------------------ bounds --------------------------------- *)

\* Number of membership bindings the store ever names (GenerateName never
\* reuses a name, so this also bounds the number of creates).
MaxBindings == 2

\* A handler call issues at most this many store requests before the
\* injected failure; 0 means no request fails.
MaxFailAt == 3

\* The same for a pass of grantManagementPlanePrivileges.
MaxGrantFailAt == 2

\* Number of passes that meet a failing store before the failures stop.
MaxFailures == 2

\* Longest list of rules of a RoleTemplate given to checkForManagementPlaneRules.
MaxRules == 2

\* Deepest nesting of gatherRoleTemplates calls that is followed.
MaxDepth == 5

\* Longest time, in seconds, by which a sleep of waitUntilSSHKey overruns.
MaxOverrun == 2

\* Most lines the subprocess writes to standard output, and to standard error.
MaxLines == 2

\* Longest subject list of a membership binding found in the store.
MaxSubjects == 2

\* Longest list of inherited RoleTemplates in the graphs the walker is
\* studied on.
MaxInherit == 2

(* --------------------------- input domains ----------------------------- *)

membershipBindingOwner == "owner"

None == "none"

NoObj == [kind |-> None]

BindingIds == 1 .. MaxBindings

\* The RoleTemplateBindings the handlers are called for, by UID: either
\* ProjectRoleTemplateBindings (membership is a RoleBinding in the project's
\* namespace) or ClusterRoleTemplateBindings (a ClusterRoleBinding).
PRTBs ==
    [u1 |-> [kind |-> "RoleBinding", ns |-> "c1", subject |-> "s1"],
     u2 |-> [kind |-> "RoleBinding", ns |-> "c1", subject |-> "s1"]]

CRTBs ==
    [u1 |-> [kind |-> "ClusterRoleBinding", ns |-> "", subject |-> "s1"],
     u2 |-> [kind |-> "ClusterRoleBinding", ns |-> "", subject |-> "s1"]]

UIDs == DOMAIN PRTBs

\* Names of the membership roles a binding of each kind may be given.
MembershipRoles(kind) ==
    IF kind = "RoleBinding"
    THEN {"p1-projectmember", "p1-projectowner"}
    ELSE {"c1-clustermember", "c1-clusterowner"}

RoleNames == MembershipRoles("RoleBinding") \cup MembershipRoles("ClusterRoleBinding")

\* The callers pass makeOwner together with the name of the owner role.
OwnerRoles == {"p1-projectowner", "c1-clusterowner"}

\* The orders in which a Go map or an index result is iterated: the
\* rotations of the ids, so that every element comes first in some order.
Orders == {[i \in BindingIds |-> ((i + k) % MaxBindings) + 1] : k \in BindingIds}

VARIABLES
    rtbs,        \* the RoleTemplateBindings of the run: PRTBs or CRTBs
    rbStore,     \* store: binding id -> RoleBinding / ClusterRoleBinding or NoObj
    rbCache,     \* informer cache: binding id -> cached object or NoObj
    dirty,       \* ids written in the store whose event the cache has not seen
    nextId,      \* next name GenerateName hands out
    roleStore,   \* store: membership role name -> verb or None
    roleCache,   \* lister cache: membership role name -> verb or None
    removed,     \* UIDs of the RoleTemplateBindings that have been deleted
    last,        \* record of the last handler call (history)
    rtRules,     \* rtLister: RoleTemplate name -> its current rules
    mpRoles,     \* store: management-plane Role name -> rules or None
    mpRolesCa,   \* rLister: cached management-plane Roles
    mpDirty,     \* Roles written in the store the cache has not seen yet
    mpRBs,       \* store: management-plane RoleBinding name -> object or NoObj
    mpRBsCa,     \* rbIndexer: cached management-plane RoleBindings
    lastG,       \* record of the last Grant pass (history)
    rtMeta,      \* rtLister: which RoleTemplates exist, and their flags
    fn           \* a function of the core under study: its input and result

memberVars == <<rtbs, rbStore, rbCache, dirty, nextId, roleStore, roleCache, removed, last>>

grantVars == <<rtRules, mpRoles, mpRolesCa, mpDirty, mpRBs, mpRBsCa, lastG, rtMeta>>

vars == <<memberVars, grantVars, fn>>

(* ------------------------- store and cache ----------------------------- *)

\* The world a handler call runs in: the store, the cache, and the call's
\* own bookkeeping (n: store requests issued so far, failAt: the request
\* that fails, err: the error the call returns, log: the writes applied).
World(failAt) ==
    [st |-> rbStore, ca |-> rbCache, dirty |-> dirty, next |-> nextId,
     roles |-> roleStore, rolesCa |-> roleCache,
     n |-> 0, failAt |-> failAt, err |-> None, log |-> <<>>, over |-> FALSE]

\* The object the informer stores for a store object: the indexes are
\* computed from the object as delivered.
Cached(obj) ==
    IF obj = NoObj THEN NoObj
    ELSE [kind |-> obj.kind, ns |-> obj.ns, role |-> obj.role,
          subjects |-> obj.subjects, labels |-> obj.labels, idx |-> obj.labels]

\* The object a client sends when handed a cached object.
Sent(c) ==
    [kind |-> c.kind, ns |-> c.ns, role |-> c.role,
     subjects |-> c.subjects, labels |-> c.labels]

\* Whether the next store request of the call is the one that fails.
Fails(w) == w.n + 1 = w.failAt

Req(w) == [w EXCEPT !.n = @ + 1]

\* Create with GenerateName: a fresh name, never AlreadyExists.
CreateBinding(w, obj) ==
    IF Fails(w) THEN [Req(w) EXCEPT !.err = "ServerError"]
    ELSE IF w.next > MaxBindings THEN [w EXCEPT !.over = TRUE, !.err = "bound"]
    ELSE [Req(w) EXCEPT !.st[w.next] = obj,
                        !.next = @ + 1,
                        !.dirty = @ \cup {w.next},
                        !.log = Append(@, <<"create", w.next>>)]

\* Delete by name, without precondition.
DeleteBinding(w, id) ==
    IF Fails(w) THEN [Req(w) EXCEPT !.err = "ServerError"]
    ELSE IF w.st[id] = NoObj THEN [Req(w) EXCEPT !.err = "NotFound"]
    ELSE [Req(w) EXCEPT !.st[id] = NoObj,
                        !.dirty = @ \cup {id},
                        !.log = Append(@, <<"delete", id>>)]

\* Update with the resourceVersion of the cached copy: the store refuses
\* it when the object was written after the copy was taken.
UpdateBinding(w, id, obj) ==
    IF Fails(w) THEN [Req(w) EXCEPT !.err = "ServerError"]
    ELSE IF w.st[id] = NoObj THEN [Req(w) EXCEPT !.err = "NotFound"]
    ELSE IF id \in w.dirty THEN [Req(w) EXCEPT !.err = "Conflict"]
    ELSE [Req(w) EXCEPT !.st[id] = obj,
                        !.dirty = @ \cup {id},
                        !.log = Append(@, <<"update", id>>)]

(* ------------------------------ indexers ------------------------------- *)

rbRoleSubjectKey(roleName, subject) == <<roleName, subject>>

\* indexer.ByIndex(membershipBindingOwnerIndex, namespace + "/" + rtbUID) of
\* the indexer of `kind`: the cached objects indexed under the key.
ByMembershipBindingOwner(ca, kind, namespace, rtbUID) ==
    {id \in BindingIds :
        /\ ca[id] # NoObj
        /\ ca[id].kind = kind
        /\ ca[id].ns = namespace
        /\ <<rtbUID, membershipBindingOwner>> \in ca[id].idx}

\* indexer.ByIndex(rbByRoleAndSubjectIndex, key) of the indexer of `kind`.
ByRoleAndSubject(ca, kind, key) ==
    {id \in BindingIds :
        /\ ca[id] # NoObj
        /\ ca[id].kind = kind
        /\ \E i \in 1 .. Len(ca[id].subjects) :
              rbRoleSubjectKey(ca[id].role, ca[id].subjects[i]) = key}

\* The elements of ids in the order `order` iterates them.
RECURSIVE InOrder(_, _, _)
InOrder(order, ids, i) ==
    IF i > MaxBindings THEN <<>>
    ELSE (IF order[i] \in ids THEN <<order[i]>> ELSE <<>>) \o InOrder(order, ids, i + 1)

(* ------------------------- membership roles ---------------------------- *)

\* createMembershipRole: the role's single rule carries "*" for an owner and
\* "get" otherwise; Create of a name the store holds is AlreadyExists.
\* A Create that overwrites the role the store holds.
createMembershipRoleOverwrite(w, roleName, makeOwner) ==
    IF Fails(w) THEN [Req(w) EXCEPT !.err = "ServerError"]
    ELSE [Req(w) EXCEPT !.roles[roleName] = IF makeOwner THEN "*" ELSE "get",
                        !.log = Append(@, <<"createRole", roleName>>)]

createMembershipRole(w, roleName, makeOwner) ==
    IF Fails(w) THEN [Req(w) EXCEPT !.err = "ServerError"]
    ELSE IF w.roles[roleName] # None THEN [Req(w) EXCEPT !.err = "AlreadyExists"]
    ELSE [Req(w) EXCEPT !.roles[roleName] = IF makeOwner THEN "*" ELSE "get",
                        !.log = Append(@, <<"createRole", roleName>>)]

\* createClusterMembershipRole: nothing when the lister knows the role.
createClusterMembershipRole(w, roleName, makeOwner) ==
    IF w.rolesCa[roleName] = None
    THEN createMembershipRole(w, roleName, makeOwner)
    ELSE w

\* createProjectMembershipRole: nothing when the lister knows the role.
createProjectMembershipRole(w, roleName, makeOwner) ==
    IF w.rolesCa[roleName] = None
    THEN createMembershipRole(w, roleName, makeOwner)
    ELSE w

(* ------------------------ reconcile for delete ------------------------- *)

\* The label loop of reconcileMembershipBindingForDelete: the labels left on
\* the object once the triggering label is deleted from its label map.
LabelsWithout(labels, rtbUID) ==
    {l \in labels : ~(l[1] = rtbUID /\ l[2] = membershipBindingOwner)}

\* otherOwners: some label other than the triggering one marks an owner.
OtherOwners(labels, rtbUID) ==
    \E l \in labels :
        /\ ~(l[1] = rtbUID /\ l[2] = membershipBindingOwner)
        /\ l[2] = membershipBindingOwner

\* One iteration of the loop over roleBindings. The label is deleted from
\* the label map of the object the indexer returned, which is the cached
\* object itself; then the binding is deleted or updated in the store.
ReconcileOne(w, id, roleToKeep, rtbUID) ==
    LET rb == w.ca[id] IN
    IF rb.kind # "RoleBinding" THEN w
    ELSE IF rb.role = roleToKeep THEN w
    ELSE
        LET kept == LabelsWithout(rb.labels, rtbUID)
            w1 == [w EXCEPT !.ca[id].labels = kept]
        IN  IF ~OtherOwners(rb.labels, rtbUID)
            THEN LET w2 == DeleteBinding(w1, id)
                 IN  IF w2.err = "NotFound" THEN [w2 EXCEPT !.err = None] ELSE w2
            ELSE UpdateBinding(w1, id, Sent(w1.ca[id]))

RECURSIVE ReconcileLoop(_, _, _, _)
ReconcileLoop(w, ids, roleToKeep, rtbUID) ==
    IF ids = <<>> \/ w.err # None THEN w
    ELSE ReconcileLoop(ReconcileOne(w, Head(ids), roleToKeep, rtbUID),
                       Tail(ids), roleToKeep, rtbUID)

reconcileMembershipBindingForDelete(w, kind, namespace, roleToKeep, rtbUID, order) ==
    LET roleBindings == ByMembershipBindingOwner(w.ca, kind, namespace, rtbUID)
    IN  ReconcileLoop(w, InOrder(order, roleBindings, 1), roleToKeep, rtbUID)

reconcileClusterMembershipBindingForDelete(w, roleToKeep, rtbUID, order) ==
    reconcileMembershipBindingForDelete(w, "ClusterRoleBinding", "", roleToKeep, rtbUID, order)

reconcileProjectMembershipBindingForDelete(w, namespace, roleToKeep, rtbUID, order) ==
    reconcileMembershipBindingForDelete(w, "RoleBinding", namespace, roleToKeep, rtbUID, order)

(* --------------------------- EnsureMembership -------------------------- *)

\* The loop over the bindings tagged with rtbUID: a binding whose subject
\* list has not exactly one entry is compared by its first subject.
TaggedMatches(ca, tagged, key) ==
    {id \in tagged :
        /\ Len(ca[id].subjects) # 1
        /\ Len(ca[id].subjects) > 0
        /\ rbRoleSubjectKey(ca[id].role, ca[id].subjects[1]) = key}

\* Subjects[0] of an empty subject list: index out of range.
TaggedPanics(ca, tagged) == \E id \in tagged : Len(ca[id].subjects) = 0

\* The labels after crb.Labels[rtbUID] = membershipBindingOwner.
LabelsWith(labels, rtbUID) ==
    {l \in labels : l[1] # rtbUID} \cup {<<rtbUID, membershipBindingOwner>>}

\* A variant of EnsureBinding that takes an existing binding for the (role,
\* subject) pair as sufficient, without looking at its labels.
EnsureBindingAnyOwner(w, kind, namespace, roleName, rtbUID, subject, found, order) ==
    IF w.err # None \/ found # {} THEN w
    ELSE IF ByRoleAndSubject(w.ca, kind, rbRoleSubjectKey(roleName, subject)) = {}
         THEN CreateBinding(w, [kind |-> kind, ns |-> namespace, role |-> roleName,
                                subjects |-> <<subject>>,
                                labels |-> {<<rtbUID, membershipBindingOwner>>}])
         ELSE w

\* The part of both ensure functions after reconcile-for-delete.
EnsureBinding(w, kind, namespace, roleName, rtbUID, subject, found, order) ==
    IF w.err # None THEN w
    ELSE IF found # {} THEN w
    ELSE
        LET key == rbRoleSubjectKey(roleName, subject)
            objs == InOrder(order, ByRoleAndSubject(w.ca, kind, key), 1)
        IN  IF Len(objs) = 0
            THEN CreateBinding(w, [kind |-> kind, ns |-> namespace, role |-> roleName,
                                   subjects |-> <<subject>>,
                                   labels |-> {<<rtbUID, membershipBindingOwner>>}])
            ELSE LET rb == w.ca[objs[1]]
                 IN  IF \E l \in rb.labels : l[1] = rtbUID THEN w
                     ELSE UpdateBinding(w, objs[1],
                                        [Sent(rb) EXCEPT !.labels = LabelsWith(@, rtbUID)])

ensureClusterMembershipBinding(w, roleName, rtbUID, makeOwner, subject, order) ==
    LET w1 == createClusterMembershipRole(w, roleName, makeOwner) IN
    IF w1.err # None THEN w1
    ELSE
        LET key == rbRoleSubjectKey(roleName, subject)
            crbs == ByMembershipBindingOwner(w1.ca, "ClusterRoleBinding", "", rtbUID)
        IN  IF TaggedPanics(w1.ca, crbs) THEN [w1 EXCEPT !.err = "panic"]
            ELSE EnsureBinding(
                     reconcileClusterMembershipBindingForDelete(w1, roleName, rtbUID, order),
                     "ClusterRoleBinding", "", roleName, rtbUID, subject,
                     TaggedMatches(w1.ca, crbs, key), order)

ensureProjectMembershipBinding(w, roleName, rtbUID, namespace, makeOwner, subject, order) ==
    LET w1 == createProjectMembershipRole(w, roleName, makeOwner) IN
    IF w1.err # None THEN w1
    ELSE
        LET key == rbRoleSubjectKey(roleName, subject)
            rbs == ByMembershipBindingOwner(w1.ca, "RoleBinding", namespace, rtbUID)
        IN  IF TaggedPanics(w1.ca, rbs) THEN [w1 EXCEPT !.err = "panic"]
            ELSE EnsureBinding(
                     reconcileProjectMembershipBindingForDelete(w1, namespace, roleName, rtbUID, order),
                     "RoleBinding", namespace, roleName, rtbUID, subject,
                     TaggedMatches(w1.ca, rbs, key), order)

(* ------------------- management-plane privileges ----------------------- *)

\* Object names are sequences of the parts a "-" separates, so that
\* a + "-" + b is the concatenation of the two sequences.
DashJoin(a, b) == a \o b

\* The management-plane resources a caller passes, with their API groups.
ManagementPlaneResources ==
    [apps |-> "project.cattle.io", nodes |-> "management.cattle.io"]

PolicyRule(resources, verbs, apiGroups, resourceNames) ==
    [resources |-> resources, verbs |-> verbs,
     apiGroups |-> apiGroups, resourceNames |-> resourceNames]

\* The rules a RoleTemplate may be given.  GetApps grants get on apps, next
\* to a rule of another API group and a rule restricted to resource names,
\* which grant nothing; GetListAll grants get and list on apps by two
\* overlapping rules, and list on nodes; GetWatchApps grants get and watch
\* on apps.
NoRules == <<>>

GetApps ==
    <<PolicyRule({"apps"}, {"get"}, {"project.cattle.io"}, {}),
      PolicyRule({"nodes"}, {"list"}, {"project.cattle.io"}, {}),
      PolicyRule({"nodes"}, {"get"}, {"*"}, {"n1"})>>

GetListAll ==
    <<PolicyRule({"apps"}, {"get"}, {"project.cattle.io"}, {}),
      PolicyRule({"*"}, {"list"}, {"*"}, {})>>

GetWatchApps == <<PolicyRule({"apps"}, {"get", "watch"}, {"*"}, {})>>

\* The rules each RoleTemplate is edited between.
RuleSets(t) ==
    IF t = <<"admin">> THEN {NoRules, GetApps, GetListAll}
    ELSE {NoRules, GetWatchApps}

\* The RoleTemplates: "ops-admin" inherits "admin".
RoleTemplateNames ==
    [t \in {<<"ops", "admin">>, <<"admin">>} |->
        IF t = <<"ops", "admin">> THEN << <<"admin">> >> ELSE <<>>]

TemplateNames == DOMAIN RoleTemplateNames

\* The RoleTemplateBindings privileges are granted for, by UID; both live in
\* the namespace p1.
GrantBindings ==
    [g1 |-> [name |-> <<"dev">>, uid |-> "g1", subject |-> "s1",
             roleTemplateName |-> <<"ops", "admin">>],
     g2 |-> [name |-> <<"dev", "ops">>, uid |-> "g2", subject |-> "s2",
             roleTemplateName |-> <<"admin">>]]

GrantUIDs == DOMAIN GrantBindings

RBNames == {DashJoin(GrantBindings[u].name, t) : u \in GrantUIDs, t \in TemplateNames}

\* rtLister: the RoleTemplates as the lister returns them.
Templates ==
    [t \in {n \in TemplateNames : rtMeta[n].exists} |->
        [name |-> t, rules |-> rtRules[t], external |-> FALSE,
         administrative |-> rtMeta[t].administrative,
         roleTemplateNames |-> RoleTemplateNames[t]]]

\* crLister: the ClusterRoles an external RoleTemplate takes its rules from.
ClusterRoles == [t \in {<<"view">>} |-> GetApps]

\* The order a Go map is ranged over: some order of its keys, or the reverse.
RECURSIVE SetToSeq(_)
SetToSeq(S) ==
    IF S = {} THEN <<>>
    ELSE LET x == CHOOSE y \in S : TRUE IN <<x>> \o SetToSeq(S \ {x})

Reverse(s) == [i \in 1 .. Len(s) |-> s[Len(s) + 1 - i]]

MapOrder(S, rev) == IF rev THEN Reverse(SetToSeq(S)) ELSE SetToSeq(S)

Restrict(f, S) == [x \in S |-> f[x]]

\* The world a Grant pass runs in (cur, des: the current and the desired
\* RoleBindings the pass handed to the diff).
GWorld(failAt) ==
    [roles |-> mpRoles, rolesCa |-> mpRolesCa, rdirty |-> mpDirty,
     rbs |-> mpRBs, rbsCa |-> mpRBsCa,
     n |-> 0, failAt |-> failAt, err |-> None, log |-> {}, tail |-> <<>>,
     cur |-> {}, des |-> {}]

\* A management-plane Role object.
Role(name, rules) == [name |-> name, rules |-> rules]

\* The requests a pass has issued, with the store's answers; tail is the
\* last of them.
Logged(w, req, name, res) ==
    [w EXCEPT !.log = @ \cup {<<req, name, res>>}, !.tail = <<req, name, res>>]

\* roleCli.Create
CreateRole(w, name, rules) ==
    IF Fails(w) THEN Logged([Req(w) EXCEPT !.err = "ServerError"], "createRole", name, "ServerError")
    ELSE IF w.roles[name] # NoObj
         THEN Logged([Req(w) EXCEPT !.err = "AlreadyExists"], "createRole", name, "AlreadyExists")
         ELSE Logged([Req(w) EXCEPT !.roles[name] = Role(name, rules), !.rdirty = @ \cup {name}],
                     "createRole", name, "ok")

\* roleCli.Update, with the resourceVersion of the cached copy.
UpdateRole(w, name, rules) ==
    IF Fails(w) THEN Logged([Req(w) EXCEPT !.err = "ServerError"], "updateRole", name, "ServerError")
    ELSE IF w.roles[name] = NoObj
         THEN Logged([Req(w) EXCEPT !.err = "NotFound"], "updateRole", name, "NotFound")
         ELSE IF name \in w.rdirty
              THEN Logged([Req(w) EXCEPT !.err = "Conflict"], "updateRole", name, "Conflict")
              ELSE Logged([Req(w) EXCEPT !.roles[name] = Role(name, rules), !.rdirty = @ \cup {name}],
                          "updateRole", name, "ok")

\* roleBindings.Create, by name.
CreateRB(w, name, obj) ==
    IF Fails(w) THEN Logged([Req(w) EXCEPT !.err = "ServerError"], "create", name, "ServerError")
    ELSE IF w.rbs[name] # NoObj
         THEN Logged([Req(w) EXCEPT !.err = "AlreadyExists"], "create", name, "AlreadyExists")
         ELSE Logged([Req(w) EXCEPT !.rbs[name] = obj], "create", name, "ok")

\* roleBindings.Delete, by name.
DeleteRB(w, name) ==
    IF Fails(w) THEN Logged([Req(w) EXCEPT !.err = "ServerError"], "delete", name, "ServerError")
    ELSE IF w.rbs[name] = NoObj
         THEN Logged([Req(w) EXCEPT !.err = "NotFound"], "delete", name, "NotFound")
         ELSE Logged([Req(w) EXCEPT !.rbs[name] = NoObj], "delete", name, "ok")

\* rbIndexer.ByIndex(rbByOwnerIndex, uid): the cached RoleBindings whose
\* owner reference names the UID.
rbByOwner(ca, uid) == {n \in RBNames : ca[n] # NoObj /\ ca[n].owner = uid}

\* A group check that knows no wildcard.
checkGroupExact(apiGroup, rule) ==
    \E rg \in rule.apiGroups : rg = apiGroup

checkGroup(apiGroup, rule) ==
    \E rg \in rule.apiGroups : rg = apiGroup \/ rg = "*"

checkForManagementPlaneRules(role, managementPlaneResource, apiGroup, crs) ==
    LET rules == IF role.external
                 THEN (IF role.name \in DOMAIN crs THEN crs[role.name] ELSE <<>>)
                 ELSE role.rules
    IN UNION {rules[i].verbs : i \in
                 {j \in 1 .. Len(rules) :
                     /\ (managementPlaneResource \in rules[j].resources
                         \/ "*" \in rules[j].resources)
                     /\ rules[j].resourceNames = {}
                     /\ checkGroup(apiGroup, rules[j])}}

\* A rule that names every resource instead of the one given.
buildRuleAnyResource(resource, verbs) == PolicyRule({"*"}, verbs, {"*"}, {})

buildRule(resource, verbs) == PolicyRule({resource}, verbs, {"*"}, {})

\* The rules of a Role that is created: one per entry of resourceToVerbs,
\* in the order rs the map is ranged over (lines 758-761).
BuildRules(resourceToVerbs, rs) ==
    [i \in 1 .. Len(rs) |-> buildRule(rs[i], resourceToVerbs[rs[i]])]

\* The verbs the rules of a Role hold for a resource (lines 725-732).
CurrentVerbs(rules, resource) ==
    UNION {rules[i].verbs : i \in {j \in 1 .. Len(rules) : resource \in rules[j].resources}}

\* One round of the loop over resourceToVerbs on an existing Role.
RECURSIVE ReconcileRules(_, _, _, _, _)
ReconcileRules(rules, resourceToVerbs, rs, i, acc) ==
    IF i > Len(rs) THEN acc
    ELSE LET resource == rs[i]
             newVerbs == resourceToVerbs[resource]
             hits == {j \in 1 .. Len(acc.rules) : resource \in acc.rules[j].resources}
             replaced == [j \in 1 .. Len(acc.rules) |->
                             IF j \in hits THEN buildRule(resource, newVerbs)
                             ELSE acc.rules[j]]
         IN IF CurrentVerbs(rules, resource) = newVerbs
            THEN ReconcileRules(rules, resourceToVerbs, rs, i + 1, acc)
            ELSE ReconcileRules(rules, resourceToVerbs, rs, i + 1,
                     [update |-> TRUE,
                      rules |-> IF hits # {} THEN replaced
                                ELSE Append(acc.rules, buildRule(resource, newVerbs))])

\* A pass that never writes an existing Role.
reconcileManagementPlaneRoleCreateOnly(w, resourceToVerbs, rtName, rev) ==
    LET role == w.rolesCa[rtName]
        rs == MapOrder(DOMAIN resourceToVerbs, rev)
        created == CreateRole(w, rtName, BuildRules(resourceToVerbs, rs))
    IN IF role # NoObj THEN w
       ELSE IF created.err = "AlreadyExists" THEN [created EXCEPT !.err = None]
            ELSE created

reconcileManagementPlaneRole(w, resourceToVerbs, rtName, rev) ==
    LET role == w.rolesCa[rtName]
        rs == MapOrder(DOMAIN resourceToVerbs, rev)
        new == ReconcileRules(role.rules, resourceToVerbs, rs, 1,
                              [update |-> FALSE, rules |-> role.rules])
        created == CreateRole(w, rtName, BuildRules(resourceToVerbs, rs))
    IN IF role # NoObj
       THEN (IF new.update THEN UpdateRole(w, rtName, new.rules) ELSE w)
       ELSE IF created.err = "AlreadyExists" THEN [created EXCEPT !.err = None]
            ELSE created

\* A walker that passes over the names it cannot fetch.
RECURSIVE gatherRoleTemplatesSkipMissing(_, _, _)
gatherRoleTemplatesSkipMissing(tm, rt, roleTemplates) ==
    LET subs == tm[rt].roleTemplateNames
        RECURSIVE Walk(_, _)
        Walk(i, acc) ==
            IF i > Len(subs) THEN acc
            ELSE IF subs[i] \notin DOMAIN tm THEN Walk(i + 1, acc)
                 ELSE Walk(i + 1, gatherRoleTemplatesSkipMissing(tm, subs[i], acc))
    IN Walk(1, [roleTemplates EXCEPT !.roles = @ \cup {rt}])

\* gatherRoleTemplates: the template and, depth first, those it inherits.
RECURSIVE gatherRoleTemplates(_, _, _)
gatherRoleTemplates(tm, rt, roleTemplates) ==
    LET subs == tm[rt].roleTemplateNames
        RECURSIVE Walk(_, _)
        Walk(i, acc) ==
            IF i > Len(subs) \/ acc.err # None THEN acc
            ELSE IF subs[i] \notin DOMAIN tm THEN [acc EXCEPT !.err = "NotFound"]
                 ELSE Walk(i + 1, gatherRoleTemplates(tm, subs[i], acc))
    IN Walk(1, [roleTemplates EXCEPT !.roles = @ \cup {rt}])

\* A walker that stops at the templates the root names.
gatherAndDedupeRolesOneLevel(tm, roleTemplateName) ==
    IF roleTemplateName \notin DOMAIN tm THEN [err |-> "NotFound", roles |-> {}]
    ELSE LET subs == tm[roleTemplateName].roleTemplateNames
         IN IF \E i \in 1 .. Len(subs) : subs[i] \notin DOMAIN tm
            THEN [err |-> "NotFound", roles |-> {}]
            ELSE [err |-> None,
                  roles |-> {roleTemplateName} \cup {subs[i] : i \in 1 .. Len(subs)}]

gatherAndDedupeRoles(tm, roleTemplateName) ==
    IF roleTemplateName \notin DOMAIN tm THEN [err |-> "NotFound", roles |-> {}]
    ELSE LET g == gatherRoleTemplates(tm, roleTemplateName, [err |-> None, roles |-> {}])
         IN IF g.err # None THEN [err |-> g.err, roles |-> {}] ELSE g

\* The loop over currentRBs (lines 648-660): what is left to create and what
\* is to delete.
RECURSIVE DiffCurrent(_, _, _)
DiffCurrent(cs, i, acc) ==
    IF i > Len(cs) THEN acc
    ELSE IF cs[i] \in acc.processed THEN DiffCurrent(cs, i + 1, acc)
         ELSE IF cs[i] \in DOMAIN acc.desiredRBs
              THEN DiffCurrent(cs, i + 1,
                       [acc EXCEPT !.processed = @ \cup {cs[i]},
                                   !.desiredRBs = Restrict(@, DOMAIN @ \ {cs[i]})])
              ELSE DiffCurrent(cs, i + 1,
                       [acc EXCEPT !.processed = @ \cup {cs[i]},
                                   !.rbsToDelete = @ \cup {cs[i]}])

\* A loop over desiredRBs that goes on whatever Create answers.
RECURSIVE CreateDesiredTolerant(_, _, _, _)
CreateDesiredTolerant(w, desiredRBs, ds, i) ==
    IF i > Len(ds) THEN w
    ELSE CreateDesiredTolerant([CreateRB(w, ds[i], desiredRBs[ds[i]]) EXCEPT !.err = None],
                               desiredRBs, ds, i + 1)

RECURSIVE CreateDesired(_, _, _, _)
CreateDesired(w, desiredRBs, ds, i) ==
    IF i > Len(ds) \/ w.err # None THEN w
    ELSE LET c == CreateRB(w, ds[i], desiredRBs[ds[i]])
         IN CreateDesired(IF c.err = "AlreadyExists" THEN [c EXCEPT !.err = None] ELSE c,
                          desiredRBs, ds, i + 1)

RECURSIVE DeleteExtra(_, _, _)
DeleteExtra(w, xs, i) ==
    IF i > Len(xs) \/ w.err # None THEN w
    ELSE DeleteExtra(DeleteRB(w, xs[i]), xs, i + 1)

\* A diff that never deletes.
reconcileDesiredNoDelete(w, currentRBs, desiredRBs, rev) ==
    LET d == DiffCurrent(MapOrder(DOMAIN currentRBs, rev), 1,
                 [processed |-> {}, desiredRBs |-> desiredRBs, rbsToDelete |-> {}])
    IN CreateDesired([w EXCEPT !.cur = DOMAIN currentRBs, !.des = DOMAIN desiredRBs],
                     d.desiredRBs, MapOrder(DOMAIN d.desiredRBs, rev), 1)

reconcileDesiredMGMTPlaneRoleBindings(w, currentRBs, desiredRBs, rev) ==
    LET d == DiffCurrent(MapOrder(DOMAIN currentRBs, rev), 1,
                 [processed |-> {}, desiredRBs |-> desiredRBs, rbsToDelete |-> {}])
        w1 == CreateDesired([w EXCEPT !.cur = DOMAIN currentRBs, !.des = DOMAIN desiredRBs],
                            d.desiredRBs, MapOrder(DOMAIN d.desiredRBs, rev), 1)
    IN DeleteExtra(w1, MapOrder(d.rbsToDelete, rev), 1)

\* resourceToVerbs of a role: the resources it grants verbs on (lines 450-480).
ResourceToVerbs(role, resources, crs) ==
    LET granted == {r \in DOMAIN resources :
                       checkForManagementPlaneRules(role, r, resources[r], crs) # {}}
    IN [r \in granted |-> checkForManagementPlaneRules(role, r, resources[r], crs)]

\* A desiredRBs that keeps only the RoleBinding of the role ranged over last.
RECURSIVE DesiredRBsLastOnly(_, _, _, _, _, _, _)
DesiredRBsLastOnly(tm, crs, roles, i, resources, subject, binding) ==
    IF i = 0 THEN <<>>
    ELSE LET before == DesiredRBsLastOnly(tm, crs, roles, i - 1, resources, subject, binding)
             bindingName == DashJoin(binding.name, roles[i])
         IN IF DOMAIN ResourceToVerbs(tm[roles[i]], resources, crs) = {}
            THEN before
            ELSE [n \in {bindingName} |->
                     [subject |-> subject, roleRef |-> roles[i], owner |-> binding.uid]]

\* desiredRBs: one RoleBinding per role that grants something, the first
\* role of a name keeping it (lines 458-478).
RECURSIVE DesiredRBs(_, _, _, _, _, _, _)
DesiredRBs(tm, crs, roles, i, resources, subject, binding) ==
    IF i = 0 THEN <<>>
    ELSE LET before == DesiredRBs(tm, crs, roles, i - 1, resources, subject, binding)
             bindingName == DashJoin(binding.name, roles[i])
         IN IF DOMAIN ResourceToVerbs(tm[roles[i]], resources, crs) = {}
               \/ bindingName \in DOMAIN before
            THEN before
            ELSE [n \in DOMAIN before \cup {bindingName} |->
                     IF n = bindingName
                     THEN [subject |-> subject, roleRef |-> roles[i], owner |-> binding.uid]
                     ELSE before[n]]

\* A loop over the roles that goes on after an error.
RECURSIVE ReconcileRolesGoOn(_, _, _, _, _, _, _)
ReconcileRolesGoOn(w, tm, crs, roles, i, resources, rev) ==
    IF i > Len(roles) THEN w
    ELSE LET rtv == ResourceToVerbs(tm[roles[i]], resources, crs)
         IN ReconcileRolesGoOn(IF DOMAIN rtv # {}
                               THEN reconcileManagementPlaneRole(w, rtv, roles[i], rev)
                               ELSE w,
                               tm, crs, roles, i + 1, resources, rev)

\* The Roles of the pass, one after the other (lines 449-486).
RECURSIVE ReconcileRoles(_, _, _, _, _, _, _)
ReconcileRoles(w, tm, crs, roles, i, resources, rev) ==
    IF i > Len(roles) \/ w.err # None THEN w
    ELSE LET rtv == ResourceToVerbs(tm[roles[i]], resources, crs)
         IN ReconcileRoles(IF DOMAIN rtv # {}
                           THEN reconcileManagementPlaneRole(w, rtv, roles[i], rev)
                           ELSE w,
                           tm, crs, roles, i + 1, resources, rev)

grantManagementPlanePrivileges(w, tm, crs, roleTemplateName, resources, subject, binding, rev) ==
    LET g == gatherAndDedupeRoles(tm, roleTemplateName)
        roles == MapOrder(g.roles, rev)
        w1 == ReconcileRoles(w, tm, crs, roles, 1, resources, rev)
        desiredRBs == DesiredRBs(tm, crs, roles, Len(roles), resources, subject, binding)
        currentRBs == Restrict(w.rbsCa, rbByOwner(w.rbsCa, binding.uid))
    IN IF g.err # None THEN [w EXCEPT !.err = g.err]
       ELSE IF w1.err # None THEN w1
            ELSE reconcileDesiredMGMTPlaneRoleBindings(w1, currentRBs, desiredRBs, rev)

(* -------- cluster-scoped privileges in a project namespace ------------- *)

commonClusterAndProjectMgmtPlaneResources == {"catalogtemplates", "catalogtemplateversions"}

crtbInProjectBindingOwner == "crtb-in-project-binding-owner"

\* The management-plane resources of a project, as the callers pass them
\* for the project's namespace.
ProjectResources ==
    [apps |-> "project.cattle.io", catalogtemplates |-> "management.cattle.io"]

\* The rules each RoleTemplate is edited between when the namespace is a
\* project's: GetListAll grants list on catalogtemplates through "*".
ProjectRuleSets(t) ==
    IF t = <<"admin">> THEN {NoRules, GetApps, GetListAll} ELSE {NoRules, GetListAll}

\* rbLister.List(projectNamespace, selector): the cached RoleBindings that
\* carry the label uid = crtbInProjectBindingOwner.
ListByCRTBOwner(ca, uid) ==
    {n \in DOMAIN ca :
        /\ ca[n] # NoObj
        /\ "labels" \in DOMAIN ca[n]
        /\ <<uid, crtbInProjectBindingOwner>> \in ca[n].labels}

\* resourceToVerbs of a role in a project namespace (lines 514-546): the
\* shared resources are left out unless the role is Administrative.
ProjectResourceToVerbs(role, resources, crs) ==
    LET granted == {r \in DOMAIN resources :
                       /\ ~(~role.administrative
                            /\ r \in commonClusterAndProjectMgmtPlaneResources)
                       /\ checkForManagementPlaneRules(role, r, resources[r], crs) # {}}
    IN [r \in granted |-> checkForManagementPlaneRules(role, r, resources[r], crs)]

\* desiredRBs in a project namespace (lines 529-544).
RECURSIVE ProjectDesiredRBs(_, _, _, _, _, _, _)
ProjectDesiredRBs(tm, crs, roles, i, resources, subject, binding) ==
    IF i = 0 THEN <<>>
    ELSE LET before == ProjectDesiredRBs(tm, crs, roles, i - 1, resources, subject, binding)
             bindingName == DashJoin(binding.name, roles[i])
         IN IF DOMAIN ProjectResourceToVerbs(tm[roles[i]], resources, crs) = {}
               \/ bindingName \in DOMAIN before
            THEN before
            ELSE [n \in DOMAIN before \cup {bindingName} |->
                     IF n = bindingName
                     THEN [subject |-> subject, roleRef |-> roles[i], owner |-> None,
                           labels |-> {<<binding.uid, crtbInProjectBindingOwner>>}]
                     ELSE before[n]]

\* The Roles of the pass in a project namespace (lines 513-552).
RECURSIVE ProjectReconcileRoles(_, _, _, _, _, _, _)
ProjectReconcileRoles(w, tm, crs, roles, i, resources, rev) ==
    IF i > Len(roles) \/ w.err # None THEN w
    ELSE LET rtv == ProjectResourceToVerbs(tm[roles[i]], resources, crs)
         IN ProjectReconcileRoles(IF DOMAIN rtv # {}
                                  THEN reconcileManagementPlaneRole(w, rtv, roles[i], rev)
                                  ELSE w,
                                  tm, crs, roles, i + 1, resources, rev)

grantManagementClusterScopedPrivilegesInProjectNamespace(w, tm, crs, roleTemplateName, resources, subject, binding, rev) ==
    LET g == gatherAndDedupeRoles(tm, roleTemplateName)
        roles == MapOrder(g.roles, rev)
        w1 == ProjectReconcileRoles(w, tm, crs, roles, 1, resources, rev)
        desiredRBs == ProjectDesiredRBs(tm, crs, roles, Len(roles), resources, subject, binding)
        currentRBs == Restrict(w.rbsCa, ListByCRTBOwner(w.rbsCa, binding.uid))
    IN IF g.err # None THEN [w EXCEPT !.err = g.err]
       ELSE IF w1.err # None THEN w1
            ELSE reconcileDesiredMGMTPlaneRoleBindings(w1, currentRBs, desiredRBs, rev)

NoGrant ==
    [op |-> None, uid |-> None, err |-> None, log |-> {}, tail |-> <<>>,
     cur |-> {}, des |-> {}, caughtUp |-> TRUE, repeat |-> FALSE]

\* Every RoleTemplate exists and none is Administrative.
PlainMeta == [t \in TemplateNames |-> [exists |-> TRUE, administrative |-> FALSE]]

\* No function of the core is under study.
NoFn == [op |-> None]

\* No RoleTemplate has rules, no Role and no RoleBinding exists.
GrantEmpty ==
    /\ rtRules = [t \in TemplateNames |-> NoRules]
    /\ mpRoles = [t \in TemplateNames |-> NoObj]
    /\ mpRolesCa = [t \in TemplateNames |-> NoObj]
    /\ mpDirty = {}
    /\ mpRBs = [n \in RBNames |-> NoObj]
    /\ mpRBsCa = [n \in RBNames |-> NoObj]
    /\ lastG = NoGrant

GrantInit ==
    /\ rtMeta = PlainMeta
    /\ fn = NoFn
    /\ GrantEmpty

(* ------------------------------ actions -------------------------------- *)

\* The informer has delivered every event of the store to the cache.
CaughtUp == dirty = {} /\ roleCache = roleStore

NoCall ==
    [op |-> None, uid |-> None, role |-> None,
     err |-> None, log |-> <<>>, caughtUp |-> TRUE, repeat |-> FALSE]

MemberInit ==
    /\ rtbs \in {PRTBs, CRTBs}
    /\ rbStore = [id \in BindingIds |-> NoObj]
    /\ rbCache = [id \in BindingIds |-> NoObj]
    /\ dirty = {}
    /\ nextId = 1
    /\ roleStore = [r \in RoleNames |-> None]
    /\ roleCache = [r \in RoleNames |-> None]
    /\ removed = {}
    /\ last = NoCall

Init == MemberInit /\ GrantInit

\* What a handler call leaves in the store and the caches.
Effects(w, op, uid, role) ==
    /\ ~w.over
    /\ rbStore' = w.st
    /\ rbCache' = w.ca
    /\ dirty' = w.dirty
    /\ nextId' = w.next
    /\ roleStore' = w.roles
    /\ roleCache' = w.rolesCa
    /\ UNCHANGED grantVars
    /\ last' = [op |-> op, uid |-> uid, role |-> role,
                err |-> w.err, log |-> w.log,
                caughtUp |-> CaughtUp,
                repeat |-> /\ last.op = op
                           /\ last.uid = uid
                           /\ last.role = role
                           /\ last.err = None
                           /\ last.caughtUp]

\* What a handler call leaves behind.
Apply(w, op, uid, role) == Effects(w, op, uid, role) /\ UNCHANGED fn

\* The call of the Ensure handler that goes with the kind of the binding.
EnsureResult(rtbUID, roleName, makeOwner, failAt, order) ==
    IF rtbs[rtbUID].kind = "RoleBinding"
    THEN ensureProjectMembershipBinding(World(failAt), roleName, rtbUID,
             rtbs[rtbUID].ns, makeOwner, rtbs[rtbUID].subject, order)
    ELSE ensureClusterMembershipBinding(World(failAt), roleName, rtbUID,
             makeOwner, rtbs[rtbUID].subject, order)

\* EnsureMembership for the RoleTemplateBinding rtbUID.
EnsureMembership(rtbUID, roleName, makeOwner, failAt, order) ==
    /\ rtbUID \notin removed
    /\ roleName \in MembershipRoles(rtbs[rtbUID].kind)
    /\ makeOwner = (roleName \in OwnerRoles)
    /\ Apply(EnsureResult(rtbUID, roleName, makeOwner, failAt, order),
             "ensure", rtbUID, roleName)
    /\ UNCHANGED <<rtbs, removed>>

\* The RoleTemplateBinding rtbUID has been deleted: reconcile for delete
\* with no role to keep.
ReconcileForDelete(rtbUID, failAt, order) ==
    /\ Apply(IF rtbs[rtbUID].kind = "RoleBinding"
             THEN reconcileProjectMembershipBindingForDelete(World(failAt),
                      rtbs[rtbUID].ns, "", rtbUID, order)
             ELSE reconcileClusterMembershipBindingForDelete(World(failAt),
                      "", rtbUID, order),
             "delete", rtbUID, "")
    /\ removed' = removed \cup {rtbUID}
    /\ UNCHANGED rtbs

\* The informer delivers the pending events: the cache takes the store's
\* object for every object written since, and keeps the others as they are.
Sync ==
    /\ ~CaughtUp
    /\ rbCache' = [id \in BindingIds |->
                      IF id \in dirty THEN Cached(rbStore[id]) ELSE rbCache[id]]
    /\ roleCache' = roleStore
    /\ dirty' = {}
    /\ UNCHANGED <<rtbs, rbStore, nextId, roleStore, removed, last>>
    /\ UNCHANGED <<grantVars, fn>>

Next ==
    \/ \E rtbUID \in UIDs, roleName \in RoleNames, makeOwner \in BOOLEAN,
          failAt \in 0 .. MaxFailAt, order \in Orders :
          EnsureMembership(rtbUID, roleName, makeOwner, failAt, order)
    \/ \E rtbUID \in UIDs, failAt \in 0 .. MaxFailAt, order \in Orders :
          ReconcileForDelete(rtbUID, failAt, order)
    \/ Sync

Spec == Init /\ [][Next]_vars

(* ----------- membership roles under either value of makeOwner ---------- *)

\* EnsureMembership called with any makeOwner for any role name; fn keeps
\* makeOwner and what the store held under the name when the call began.
EnsureMembershipOfRole(rtbUID, roleName, makeOwner, failAt, order) ==
    /\ roleName \in MembershipRoles(rtbs[rtbUID].kind)
    /\ Effects(EnsureResult(rtbUID, roleName, makeOwner, failAt, order),
               "ensure", rtbUID, roleName)
    /\ fn' = [op |-> "ensure", makeOwner |-> makeOwner, had |-> roleStore[roleName],
              known |-> roleCache[roleName] # None]
    /\ UNCHANGED <<rtbs, removed>>

\* The store may fail the first request of a call, which is the Create of
\* the role when there is one.
NextRole ==
    \/ \E rtbUID \in UIDs, roleName \in RoleNames, makeOwner \in BOOLEAN,
          failAt \in 0 .. 1, order \in Orders :
          EnsureMembershipOfRole(rtbUID, roleName, makeOwner, failAt, order)
    \/ Sync

SpecRole == Init /\ [][NextRole]_vars

(* ---------------- management-plane privileges: actions ----------------- *)

GrantCaughtUp == mpDirty = {} /\ mpRolesCa = mpRoles /\ mpRBsCa = mpRBs

\* One pass of grantManagementPlanePrivileges for the binding uid, in the
\* binding's own namespace.
GrantInOwnNamespace(uid, failAt, rev) ==
    \E w \in {grantManagementPlanePrivileges(GWorld(failAt), Templates, ClusterRoles,
                  GrantBindings[uid].roleTemplateName, ManagementPlaneResources,
                  GrantBindings[uid].subject, GrantBindings[uid], rev)} :
       /\ mpRoles' = w.roles
       /\ mpRolesCa' = w.rolesCa
       /\ mpDirty' = w.rdirty
       /\ mpRBs' = w.rbs
       /\ mpRBsCa' = w.rbsCa
       /\ lastG' = [op |-> "grant", uid |-> uid, err |-> w.err, log |-> w.log, tail |-> w.tail,
                    cur |-> w.cur, des |-> w.des,
                    caughtUp |-> GrantCaughtUp,
                    repeat |-> /\ lastG.op = "grant"
                               /\ lastG.uid = uid
                               /\ lastG.err = None
                               /\ lastG.caughtUp]
       /\ UNCHANGED <<memberVars, rtRules, rtMeta, fn>>

\* The rules of a RoleTemplate are edited.
ChangeRules(t, rules) ==
    /\ rules # rtRules[t]
    /\ rtRules' = [rtRules EXCEPT ![t] = rules]
    /\ lastG' = NoGrant
    /\ UNCHANGED <<memberVars, mpRoles, mpRolesCa, mpDirty, mpRBs, mpRBsCa, rtMeta, fn>>

\* The informers deliver the pending events of the Roles and RoleBindings.
SyncGrant ==
    /\ ~GrantCaughtUp
    /\ mpRolesCa' = mpRoles
    /\ mpRBsCa' = mpRBs
    /\ mpDirty' = {}
    /\ UNCHANGED <<memberVars, rtRules, mpRoles, mpRBs, lastG, rtMeta, fn>>

InitGrant == Init /\ rtbs = PRTBs

NextGrant ==
    \/ \E uid \in GrantUIDs, failAt \in 0 .. MaxGrantFailAt, rev \in BOOLEAN :
          GrantInOwnNamespace(uid, failAt, rev)
    \/ \E t \in TemplateNames : \E rules \in RuleSets(t) : ChangeRules(t, rules)
    \/ SyncGrant

SpecGrant == InitGrant /\ [][NextGrant]_vars

(* ------ cluster-scoped privileges in a project namespace: actions ------ *)

\* What a pass leaves behind.
GrantApply(w, op, uid) ==
    /\ mpRoles' = w.roles
    /\ mpRolesCa' = w.rolesCa
    /\ mpDirty' = w.rdirty
    /\ mpRBs' = w.rbs
    /\ mpRBsCa' = w.rbsCa
    /\ lastG' = [op |-> op, uid |-> uid, err |-> w.err, log |-> w.log, tail |-> w.tail,
                 cur |-> w.cur, des |-> w.des,
                 caughtUp |-> GrantCaughtUp,
                 repeat |-> /\ lastG.op = op
                            /\ lastG.uid = uid
                            /\ lastG.err = None
                            /\ lastG.caughtUp]
    /\ UNCHANGED <<memberVars, rtRules, rtMeta, fn>>

\* One pass for the cluster-scoped binding g1 in the namespace of the project.
GrantClusterScopedInProjectNamespace(failAt, rev) ==
    \E w \in {grantManagementClusterScopedPrivilegesInProjectNamespace(
                  GWorld(failAt), Templates, ClusterRoles,
                  GrantBindings["g1"].roleTemplateName, ProjectResources,
                  GrantBindings["g1"].subject, GrantBindings["g1"], rev)} :
       GrantApply(w, "grantInProject", "g1")

\* One pass for the project-scoped binding g2 in its own namespace, the
\* namespace of the project.
GrantProjectScopedInOwnNamespace(failAt, rev) ==
    \E w \in {grantManagementPlanePrivileges(
                  GWorld(failAt), Templates, ClusterRoles,
                  GrantBindings["g2"].roleTemplateName, ProjectResources,
                  GrantBindings["g2"].subject, GrantBindings["g2"], rev)} :
       GrantApply(w, "grant", "g2")

\* ops-admin is Administrative.
AdministrativeMeta == [PlainMeta EXCEPT ![<<"ops", "admin">>].administrative = TRUE]

\* The inherited RoleTemplate admin does not exist.
MissingMeta == [PlainMeta EXCEPT ![<<"admin">>].exists = FALSE]

InitProject ==
    /\ MemberInit
    /\ rtbs = PRTBs
    /\ GrantEmpty
    /\ fn = NoFn
    /\ rtMeta \in {PlainMeta, AdministrativeMeta, MissingMeta}

NextProject ==
    \/ \E failAt \in 0 .. MaxGrantFailAt, rev \in BOOLEAN :
          GrantClusterScopedInProjectNamespace(failAt, rev)
    \/ \E failAt \in 0 .. MaxGrantFailAt, rev \in BOOLEAN :
          GrantProjectScopedInOwnNamespace(failAt, rev)
    \/ \E t \in TemplateNames : \E rules \in ProjectRuleSets(t) : ChangeRules(t, rules)
    \/ SyncGrant

SpecProject == InitProject /\ [][NextProject]_vars

(* ------------------- membership bindings: the claims ------------------- *)

Present == {id \in BindingIds : rbStore[id] # NoObj}

HasSubject(obj, subject) == \E i \in 1 .. Len(obj.subjects) : obj.subjects[i] = subject

Owns(obj, uid) == <<uid, membershipBindingOwner>> \in obj.labels

\* The step is a handler call (not the informer catching up).
Call ==
    <<rbStore, roleStore, last, removed, nextId>>' # <<rbStore, roleStore, last, removed, nextId>>

\* C1: in every reachable state there is at most one membership binding
\* per (role name, subject) pair.
C1_AtMostOnePerRoleAndSubject ==
    \A a, b \in Present :
        (a # b /\ rbStore[a].kind = rbStore[b].kind /\ rbStore[a].role = rbStore[b].role)
            => \A i \in 1 .. Len(rbStore[a].subjects) :
                   ~HasSubject(rbStore[b], rbStore[a].subjects[i])

\* C2: whenever EnsureMembership(roleName, bindingUID, ..., subject) returns
\* without error, the store holds a membership binding whose RoleRef names
\* roleName, whose subject is the given subject and which carries the
\* ownership label bindingUID = owner.
C2_EnsureLeavesOwnedBinding ==
    (last.op = "ensure" /\ last.err = None) =>
        \E id \in Present :
            /\ rbStore[id].kind = rtbs[last.uid].kind
            /\ rbStore[id].role = last.role
            /\ HasSubject(rbStore[id], rtbs[last.uid].subject)
            /\ Owns(rbStore[id], last.uid)

\* C2 witness: a successful EnsureMembership that added its label to a
\* binding another RoleTemplateBinding already owned.
C2_Witness ==
    /\ last.op = "ensure" /\ last.err = None
    /\ \E id \in Present :
          /\ last.log = <<<<"update", id>>>>
          /\ rbStore[id].role = last.role
          /\ Owns(rbStore[id], last.uid)
          /\ \E other \in UIDs \ {last.uid} : Owns(rbStore[id], other)

\* C3: EnsureMembership invoked twice in a row with identical arguments,
\* each invocation reading a cache that has caught up with the store: the
\* second invocation succeeds and creates, updates and deletes nothing.
C3_SecondEnsureIsNoOp ==
    (last.op = "ensure" /\ last.repeat /\ last.caughtUp) =>
        (last.err = None /\ last.log = <<>>)

\* C3 witness: the second of two identical invocations has run and the
\* binding of the first is in the store.
C3_Witness ==
    /\ last.op = "ensure" /\ last.repeat /\ last.caughtUp
    /\ \E id \in Present : rbStore[id].role = last.role /\ Owns(rbStore[id], last.uid)

\* A handler call for rtbUID that ran reconcile-for-delete with roleToKeep,
\* read a caught-up cache and returned no error.
ReconcileStep(rtbUID, roleToKeep) ==
    /\ Call
    /\ last'.op \in {"ensure", "delete"}
    /\ last'.uid = rtbUID
    /\ last'.role = roleToKeep
    /\ last'.err = None
    /\ last'.caughtUp

\* The binding is tagged with rtbUID and its role is not the role to keep.
Triggered(id, rtbUID, roleToKeep) ==
    /\ rbStore[id] # NoObj
    /\ Owns(rbStore[id], rtbUID)
    /\ rbStore[id].role # roleToKeep

\* C4: reconcile-for-delete deletes a membership binding if and only if no
\* other ownership label remains once the triggering label is removed; a
\* binding that carries another ownership label is not deleted but updated
\* without the triggering label.
C4_DeletedIffNoOtherOwner ==
    [][\A id \in BindingIds, rtbUID \in UIDs, roleToKeep \in RoleNames \cup {""} :
          (ReconcileStep(rtbUID, roleToKeep) /\ Triggered(id, rtbUID, roleToKeep)) =>
              /\ (rbStore'[id] = NoObj) <=> ~OtherOwners(rbStore[id].labels, rtbUID)
              /\ OtherOwners(rbStore[id].labels, rtbUID) =>
                     rbStore'[id] = [rbStore[id] EXCEPT !.labels = LabelsWithout(@, rtbUID)]]_vars

\* C5: after a successful EnsureMembership(roleName, bindingUID, ...) that
\* read a caught-up cache, no membership binding whose role differs from
\* roleName carries the bindingUID ownership label, for the project and the
\* cluster variant alike.
C5_NoLabelOnOtherRoles ==
    (last.op = "ensure" /\ last.err = None /\ last.caughtUp) =>
        \A id \in Present : rbStore[id].role # last.role => ~Owns(rbStore[id], last.uid)

\* A successful EnsureMembership(roleName, rtbUID, ...) on a caught-up cache.
EnsureStep(rtbUID, roleName) ==
    /\ Call
    /\ last'.op = "ensure"
    /\ last'.uid = rtbUID
    /\ last'.role = roleName
    /\ last'.err = None
    /\ last'.caughtUp

\* A membership binding for (roleName, subject of rtbUID) exists and carries
\* only other bindings' ownership labels.
Shared(id, rtbUID, roleName) ==
    /\ rbStore[id] # NoObj
    /\ rbStore[id].kind = rtbs[rtbUID].kind
    /\ rbStore[id].role = roleName
    /\ HasSubject(rbStore[id], rtbs[rtbUID].subject)
    /\ rbStore[id].labels # {}
    /\ \A l \in rbStore[id].labels : l[1] # rtbUID

\* C6: EnsureMembership for a UID, when a membership binding for the same
\* (role, subject) exists carrying only other bindings' ownership labels,
\* creates no binding and updates the existing one so that it carries the
\* new UID's label in addition to every label it already had.
C6_LabelAddedToSharedBinding ==
    [][\A id \in BindingIds, rtbUID \in UIDs, roleName \in RoleNames :
          (EnsureStep(rtbUID, roleName) /\ Shared(id, rtbUID, roleName)) =>
              /\ nextId' = nextId
              /\ rbStore'[id] =
                     [rbStore[id] EXCEPT !.labels = @ \cup {<<rtbUID, membershipBindingOwner>>}]]_vars

(* ----------------------- the graph walker alone ------------------------ *)

WalkNames == {<<"a">>, <<"b">>, <<"c">>}

\* The inheritance lists a RoleTemplate may carry.
InheritLists == UNION {[1 .. n -> WalkNames] : n \in 0 .. MaxInherit}

\* The templates a template names.
Named(tm, x) ==
    IF x \in DOMAIN tm
    THEN {tm[x].roleTemplateNames[i] : i \in 1 .. Len(tm[x].roleTemplateNames)}
    ELSE {}

\* The names reached from S in at most k steps of inheritance.
RECURSIVE ReachFrom(_, _, _)
ReachFrom(tm, S, k) ==
    IF k = 0 THEN S
    ELSE ReachFrom(tm, S \cup UNION {Named(tm, x) : x \in S}, k - 1)

Reachable(tm, root) == ReachFrom(tm, {root}, Cardinality(WalkNames))

\* No template inherits from itself, directly or not.
Acyclic(tm) ==
    \A x \in DOMAIN tm : x \notin ReachFrom(tm, Named(tm, x), Cardinality(WalkNames))

\* The rtLister contents the walker is studied on: the templates present
\* and the list of each, without inheritance cycles.
WalkGraphs ==
    {tm \in UNION {[present ->
                       [name : WalkNames, roleTemplateNames : InheritLists]] :
                   present \in SUBSET WalkNames} :
        /\ \A x \in DOMAIN tm : tm[x].name = x
        /\ Acyclic(tm)}

InitWalk ==
    /\ MemberInit
    /\ rtbs = PRTBs
    /\ GrantEmpty
    /\ rtMeta = PlainMeta
    /\ \E tm \in WalkGraphs, root \in WalkNames :
          fn = [op |-> "gatherAndDedupeRoles", tm |-> tm, root |-> root, out |-> NoObj]

\* gatherAndDedupeRoles(root) returns.
GatherAndDedupeRoles ==
    /\ fn.op = "gatherAndDedupeRoles"
    /\ fn.out = NoObj
    /\ fn' = [fn EXCEPT !.out = gatherAndDedupeRoles(fn.tm, fn.root)]
    /\ UNCHANGED <<memberVars, grantVars>>

NextWalk == GatherAndDedupeRoles

SpecWalk == InitWalk /\ [][NextWalk]_vars

(* -------------------------- owner detection ---------------------------- *)

projectResource == "projects"

clusterResource == "clusters"

OwnerNames == {<<"project", "owner">>, <<"cluster", "owner">>, <<"custom">>}

\* Builtin flag, Context and rules of a RoleTemplate: a builtin template of
\* project context without rules; a builtin template of cluster context
\* with get on projects and own on another resource; a custom template with
\* get and own on clusters and another resource; a custom template without
\* rules.
OwnerProfiles ==
    {[flags |-> [builtin |-> TRUE, context |-> "project"], rules |-> NoRules],
     [flags |-> [builtin |-> TRUE, context |-> "cluster"],
      rules |-> <<PolicyRule({"projects"}, {"get"}, {"management.cattle.io"}, {}),
                  PolicyRule({"apps"}, {"own"}, {"project.cattle.io"}, {})>>],
     [flags |-> [builtin |-> FALSE, context |-> "project"],
      rules |-> <<PolicyRule({"apps", "clusters"}, {"get", "own"}, {"*"}, {})>>],
     [flags |-> [builtin |-> FALSE, context |-> "project"], rules |-> NoRules]}

\* The inheritance lists of template x: other templates.
OwnerLists(x) == UNION {[1 .. n -> OwnerNames \ {x}] : n \in 0 .. MaxInherit}

\* What the template named x may be.
OwnerTemplates(x) ==
    {[name |-> x, flags |-> p.flags, rules |-> p.rules, roleTemplateNames |-> l] :
        p \in OwnerProfiles, l \in OwnerLists(x)}

\* The rtLister contents owner detection is studied on: every template
\* exists, no inheritance cycle.
OwnerGraphs ==
    {tm \in {[x \in OwnerNames |->
                 IF x = <<"project", "owner">> THEN a
                 ELSE IF x = <<"cluster", "owner">> THEN b ELSE c] :
             a \in OwnerTemplates(<<"project", "owner">>),
             b \in OwnerTemplates(<<"cluster", "owner">>),
             c \in OwnerTemplates(<<"custom">>)} :
        Acyclic(tm)}

\* A rule on the project or cluster resource with the verb own (lines 822-828).
HasOwnRule(roleTemplate) ==
    \E i \in 1 .. Len(roleTemplate.rules) :
        /\ (projectResource \in roleTemplate.rules[i].resources
            \/ clusterResource \in roleTemplate.rules[i].resources)
        /\ "own" \in roleTemplate.rules[i].verbs

\* checkReferencedRoles looking at the named template only.
checkReferencedRolesOwnOnly(tm, roleTemplateName) ==
    IF roleTemplateName \notin DOMAIN tm THEN [err |-> "NotFound", isOwner |-> FALSE]
    ELSE [err |-> None,
          isOwner |->
              \/ (tm[roleTemplateName].flags.builtin
                  /\ tm[roleTemplateName].flags.context = "project"
                  /\ roleTemplateName = <<"project", "owner">>)
              \/ (tm[roleTemplateName].flags.builtin
                  /\ tm[roleTemplateName].flags.context = "cluster"
                  /\ roleTemplateName = <<"cluster", "owner">>)
              \/ HasOwnRule(tm[roleTemplateName])]

RECURSIVE checkReferencedRoles(_, _)
checkReferencedRoles(tm, roleTemplateName) ==
    IF roleTemplateName \notin DOMAIN tm THEN [err |-> "NotFound", isOwner |-> FALSE]
    ELSE LET roleTemplate == tm[roleTemplateName]
             subs == roleTemplate.roleTemplateNames
             RECURSIVE Referenced(_)
             Referenced(i) ==
                 IF i > Len(subs) THEN [err |-> None, isOwner |-> FALSE]
                 ELSE LET r == checkReferencedRoles(tm, subs[i])
                      IN IF r.err # None THEN [err |-> r.err, isOwner |-> FALSE]
                         ELSE IF r.isOwner THEN [err |-> None, isOwner |-> TRUE]
                              ELSE IF i = Len(subs) THEN r
                                   ELSE Referenced(i + 1)
         IN IF roleTemplate.flags.builtin /\ roleTemplate.flags.context = "project"
               /\ roleTemplateName = <<"project", "owner">>
            THEN [err |-> None, isOwner |-> TRUE]
            ELSE IF roleTemplate.flags.builtin /\ roleTemplate.flags.context = "cluster"
                    /\ roleTemplateName = <<"cluster", "owner">>
                 THEN [err |-> None, isOwner |-> TRUE]
                 ELSE IF HasOwnRule(roleTemplate) THEN [err |-> None, isOwner |-> TRUE]
                      ELSE Referenced(1)

InitOwner ==
    /\ MemberInit
    /\ rtbs = PRTBs
    /\ GrantEmpty
    /\ rtMeta = PlainMeta
    /\ \E tm \in OwnerGraphs, root \in OwnerNames :
          fn = [op |-> "checkReferencedRoles", tm |-> tm, root |-> root, out |-> NoObj]

\* checkReferencedRoles(root) returns.
CheckReferencedRoles ==
    /\ fn.op = "checkReferencedRoles"
    /\ fn.out = NoObj
    /\ fn' = [fn EXCEPT !.out = checkReferencedRoles(fn.tm, fn.root)]
    /\ UNCHANGED <<memberVars, grantVars>>

NextOwner == CheckReferencedRoles

SpecOwner == InitOwner /\ [][NextOwner]_vars

(* ------------------- retried passes, fixed templates ------------------- *)

\* The RoleTemplates are fixed from the start: any rules each may have.
\* fn counts the passes that may still meet a failing store.
InitConverge ==
    /\ MemberInit
    /\ rtbs = PRTBs
    /\ mpRoles = [t \in TemplateNames |-> NoObj]
    /\ mpRolesCa = [t \in TemplateNames |-> NoObj]
    /\ mpDirty = {}
    /\ mpRBs = [n \in RBNames |-> NoObj]
    /\ mpRBsCa = [n \in RBNames |-> NoObj]
    /\ lastG = NoGrant
    /\ rtMeta = PlainMeta
    /\ fn = [op |-> "failures", left |-> MaxFailures]
    /\ \E rules \in [TemplateNames -> UNION {RuleSets(t) : t \in TemplateNames}] :
          /\ \A t \in TemplateNames : rules[t] \in RuleSets(t)
          /\ rtRules = rules

\* The controller invokes the pass for the binding uid again; failAt > 0
\* is a pass that meets a failing store.
RetryPass(uid, failAt, rev) ==
    /\ failAt > 0 => fn.left > 0
    /\ \E w \in {grantManagementPlanePrivileges(GWorld(failAt), Templates, ClusterRoles,
                     GrantBindings[uid].roleTemplateName, ManagementPlaneResources,
                     GrantBindings[uid].subject, GrantBindings[uid], rev)} :
          /\ mpRoles' = w.roles
          /\ mpRolesCa' = w.rolesCa
          /\ mpDirty' = w.rdirty
          /\ mpRBs' = w.rbs
          /\ mpRBsCa' = w.rbsCa
          /\ lastG' = [op |-> "grant", uid |-> uid, err |-> w.err, log |-> w.log,
                       tail |-> w.tail, cur |-> w.cur, des |-> w.des,
                       clean |-> failAt = 0,
                       caughtUp |-> GrantCaughtUp,
                       repeat |-> /\ lastG.op = "grant"
                                  /\ lastG.uid = uid
                                  /\ lastG.err = None
                                  /\ lastG.caughtUp]
    /\ fn' = IF failAt > 0 THEN [fn EXCEPT !.left = @ - 1] ELSE fn
    /\ UNCHANGED <<memberVars, rtRules, rtMeta>>

NextConverge ==
    \/ \E uid \in GrantUIDs, failAt \in 0 .. MaxGrantFailAt, rev \in BOOLEAN :
          RetryPass(uid, failAt, rev)
    \/ SyncGrant

\* The informer keeps delivering; the failing passes are finitely many.
SpecConverge ==
    /\ InitConverge
    /\ [][NextConverge]_vars
    /\ WF_vars(SyncGrant)

(* ---------------- management-plane privileges: the claims -------------- *)

\* The verbs the stored Role of a template holds for a resource.
RoleVerbs(t, resource) ==
    IF mpRoles[t] = NoObj THEN {} ELSE CurrentVerbs(mpRoles[t].rules, resource)

\* The templates a binding's template expands to.
Expansion(uid) == gatherAndDedupeRoles(Templates, GrantBindings[uid].roleTemplateName).roles

\* The verbs the current rules of a template grant on a resource.
Implied(t, resource) ==
    checkForManagementPlaneRules(Templates[t], resource,
                                 ManagementPlaneResources[resource], ClusterRoles)

\* The last step of the program was a Grant pass that read a caught-up
\* cache and returned no error; no RoleTemplate was edited since.
GrantDone == lastG.op = "grant" /\ lastG.err = None /\ lastG.caughtUp

\* C7: after a successful Grant pass, each management-plane Role of the
\* binding's templates holds, for every management-plane resource, exactly
\* the verbs the template's current rules imply: no verb or resource the
\* template does not grant remains, and none it grants is missing.
C7_RoleHoldsExactlyImpliedVerbs ==
    GrantDone =>
        \A t \in Expansion(lastG.uid), r \in DOMAIN ManagementPlaneResources :
            RoleVerbs(t, r) = Implied(t, r)

C9_SecondPassIssuesNothing ==
    (lastG.op = "grant" /\ lastG.repeat /\ lastG.caughtUp) =>
        (lastG.err = None /\ lastG.log = {})

\* The names a kind of request of the last pass was issued for.
Issued(req) == {e[2] : e \in {x \in lastG.log : x[1] = req}}

\* C10: a pass that returns no error has issued a create for exactly the
\* desired RoleBindings that are not current (each of them is in the store
\* afterwards), a delete for exactly the current ones that are not desired
\* (none of them is in the store afterwards), and no write for a binding
\* that is both.
C10_DiffCreatesAndDeletesExactly ==
    (lastG.op = "grant" /\ lastG.err = None) =>
        /\ Issued("create") = lastG.des \ lastG.cur
        /\ Issued("delete") = lastG.cur \ lastG.des
        /\ \A n \in lastG.des \ lastG.cur : mpRBs[n] # NoObj
        /\ \A n \in lastG.cur \ lastG.des : mpRBs[n] = NoObj

\* C10 witness: a successful pass with a binding to create and another to
\* delete.
C10_Witness ==
    /\ lastG.op = "grant" /\ lastG.err = None
    /\ lastG.des \ lastG.cur # {}
    /\ lastG.cur \ lastG.des # {}

(* -------- privileges in a project namespace: the claims ---------------- *)

\* The subject is bound by the RoleBinding to a Role that holds verbs on a
\* shared resource.
BoundToSharedResource(subject) ==
    \E n \in DOMAIN mpRBs :
        /\ mpRBs[n] # NoObj
        /\ mpRBs[n].subject = subject
        /\ \E r \in commonClusterAndProjectMgmtPlaneResources :
              RoleVerbs(mpRBs[n].roleRef, r) # {}

\* C11: the subject of g1 is bound only through the cluster-scoped binding
\* g1; when no RoleTemplate is Administrative, no RoleBinding of the project
\* namespace binds it to a Role that holds verbs on catalogtemplates or
\* catalogtemplateversions.
C11_NoSharedResourceForClusterSubject ==
    (\A t \in TemplateNames : ~rtMeta[t].administrative) =>
        ~BoundToSharedResource(GrantBindings["g1"].subject)

(* ----------------------- the graph walker: claims ---------------------- *)

\* Every template reachable from the root exists.
AllPresent(tm, root) == Reachable(tm, root) \subseteq DOMAIN tm

\* C12: on an inheritance graph without cycles in which every template
\* reachable from the root exists, gatherAndDedupeRoles(root) returns no
\* error and exactly the templates reachable from the root, the root
\* included.
C12_WalkerReturnsReachableSet ==
    (fn.op = "gatherAndDedupeRoles" /\ fn.out # NoObj /\ AllPresent(fn.tm, fn.root)) =>
        /\ fn.out.err = None
        /\ fn.out.roles = Reachable(fn.tm, fn.root)

\* C12 witness: a diamond, a inherits b and c, b inherits c: three
\* templates returned, c reached twice.
C12_Witness ==
    /\ fn.op = "gatherAndDedupeRoles" /\ fn.out # NoObj
    /\ fn.root = <<"a">>
    /\ DOMAIN fn.tm = WalkNames
    /\ fn.tm[<<"a">>].roleTemplateNames = << <<"b">>, <<"c">> >>
    /\ fn.tm[<<"b">>].roleTemplateNames = << <<"c">> >>
    /\ fn.out.roles = WalkNames

\* C13: when the root template of a binding, or a template reachable from
\* it, does not exist, the walker returns NotFound and no template set, and
\* every Grant pass has returned that error without issuing a request to
\* the store.
C13_MissingTemplateAbortsPass ==
    rtMeta = MissingMeta =>
        /\ \A uid \in GrantUIDs :
              gatherAndDedupeRoles(Templates, GrantBindings[uid].roleTemplateName)
                  = [err |-> "NotFound", roles |-> {}]
        /\ lastG.op # None => (lastG.err = "NotFound" /\ lastG.log = {})
        /\ \A t \in TemplateNames : mpRoles[t] = NoObj
        /\ \A n \in DOMAIN mpRBs : mpRBs[n] = NoObj

\* C13 witness: a pass for the cluster-scoped binding ran while its
\* template ops-admin granted verbs and the inherited admin was missing.
C13_Witness ==
    /\ rtMeta = MissingMeta
    /\ lastG.op = "grantInProject"
    /\ rtRules[<<"ops", "admin">>] = GetListAll

(* ------------------------ owner detection: claims ---------------------- *)

\* The template is the builtin project-owner of project context or the
\* builtin cluster-owner of cluster context.
BuiltinOwner(roleTemplate) ==
    \/ (roleTemplate.name = <<"project", "owner">> /\ roleTemplate.flags.builtin
        /\ roleTemplate.flags.context = "project")
    \/ (roleTemplate.name = <<"cluster", "owner">> /\ roleTemplate.flags.builtin
        /\ roleTemplate.flags.context = "cluster")

\* C14: on a graph without cycles in which every template exists,
\* checkReferencedRoles(root) returns true exactly when the root or a
\* template reachable from it has a rule on projects or clusters whose verbs
\* include own, or is a builtin owner template of its context; it returns
\* false otherwise, and no error.
C14_OwnerDetectedIffReachableOwner ==
    (fn.op = "checkReferencedRoles" /\ fn.out # NoObj) =>
        /\ fn.out.err = None
        /\ fn.out.isOwner <=>
              \E t \in Reachable(fn.tm, fn.root) :
                  HasOwnRule(fn.tm[t]) \/ BuiltinOwner(fn.tm[t])

\* C14 witness: custom has no own rule itself and inherits, second in its
\* list, the builtin project-owner, which has no rules at all: true.
C14_Witness ==
    /\ fn.op = "checkReferencedRoles" /\ fn.out # NoObj
    /\ fn.root = <<"custom">>
    /\ ~HasOwnRule(fn.tm[<<"custom">>])
    /\ fn.tm[<<"custom">>].roleTemplateNames = << <<"cluster", "owner">>, <<"project", "owner">> >>
    /\ ~BuiltinOwner(fn.tm[<<"cluster", "owner">>])
    /\ ~HasOwnRule(fn.tm[<<"cluster", "owner">>])
    /\ fn.tm[<<"cluster", "owner">>].roleTemplateNames = <<>>
    /\ BuiltinOwner(fn.tm[<<"project", "owner">>])
    /\ fn.tm[<<"project", "owner">>].rules = NoRules
    /\ fn.out.isOwner

(* --------------------------- errors: claims ---------------------------- *)

\* The requests of the last pass the store did not carry out.
Refused == {e \in lastG.log : e[3] # "ok"}

InPlace(e) ==
    e[3] = "ok" =>
        /\ e[1] \in {"createRole", "updateRole"} => mpRoles[e[2]] # NoObj
        /\ e[1] = "create" => mpRBs[e[2]] # NoObj
        /\ e[1] = "delete" => mpRBs[e[2]] = NoObj

\* C16: a Grant pass that returned an error after issuing requests returned
\* the error of the last request it issued, no other request of the pass
\* was refused with an error that is not tolerated, and the effect of every
\* request carried out before is in the store.
C16_FailureAbortsWithoutRollback ==
    (lastG.op = "grant" /\ lastG.err # None /\ lastG.log # {}) =>
        /\ lastG.tail[3] = lastG.err
        /\ \A e \in Refused :
              e = lastG.tail \/ (e[1] \in {"create", "createRole"} /\ e[3] = "AlreadyExists")
        /\ \A e \in lastG.log : InPlace(e)

\* C16 witness: the pass created a Role, then the next request failed.
C16_Witness ==
    /\ lastG.op = "grant"
    /\ lastG.err = "ServerError"
    /\ \E e \in lastG.log : e[1] = "createRole" /\ e[3] = "ok"
    /\ Cardinality(lastG.log) = 2

(* ------------------------ retried passes: claims ----------------------- *)

\* The templates of the binding that grant verbs on some resource.
Granting(uid) ==
    {t \in Expansion(uid) : \E r \in DOMAIN ManagementPlaneResources : Implied(t, r) # {}}

\* What a failure-free pass for the binding produces from an empty store:
\* the Role of every granting template with the implied verbs, and a
\* RoleBinding of the binding's subject to each of these Roles.
Produced(uid) ==
    /\ \A t \in Granting(uid), r \in DOMAIN ManagementPlaneResources :
          RoleVerbs(t, r) = Implied(t, r)
    /\ \A t \in Granting(uid) :
          mpRBs[DashJoin(GrantBindings[uid].name, t)] =
              [subject |-> GrantBindings[uid].subject, roleRef |-> t, owner |-> uid]

\* Nothing is in the store that no pass produces.
NothingElse ==
    /\ \A t \in TemplateNames :
          mpRoles[t] # NoObj => \E uid \in GrantUIDs : t \in Granting(uid)
    /\ \A n \in DOMAIN mpRBs :
          mpRBs[n] # NoObj =>
              \E uid \in GrantUIDs :
                  \E t \in Granting(uid) : n = DashJoin(GrantBindings[uid].name, t)

\* The pass for the binding has just run and met no failing store.
CleanRun(uid) == lastG.op = "grant" /\ lastG.uid = uid /\ lastG.clean

\* C17: with the RoleTemplates and bindings fixed and the failures finitely
\* many, if the pass of every binding is invoked again and again, the store
\* reaches and then stays in the state that holds what a failure-free pass
\* of each binding produces, and nothing else.
C17_RetriedPassesConverge ==
    (\A uid \in GrantUIDs : []<>CleanRun(uid))
        => <>[](NothingElse /\ \A uid \in GrantUIDs : Produced(uid))

(* ---------------------------- rule matching ---------------------------- *)

\* The rule of the RoleTemplate "viewer": get on clusters in management.cattle.io.
ViewerRule == PolicyRule({"clusters"}, {"get"}, {"management.cattle.io"}, {})

\* The rules a RoleTemplate or a native role may carry.
CheckRules ==
    {PolicyRule(rs, vs, gs, ns) :
        rs \in {{"clusters"}, {"nodes"}, {"*"}},
        vs \in {{"get"}, {"list", "watch"}},
        gs \in {{"management.cattle.io"}, {"other.io"}, {"*"}},
        ns \in {{}, {"local"}}}

CheckRuleLists == UNION {[1 .. n -> CheckRules] : n \in 0 .. MaxRules}

\* What crLister.Get answers for the name of the RoleTemplate.
NativeRoles ==
    {[err |-> "NotFound", rules |-> <<>>],
     [err |-> "ServerError", rules |-> <<>>],
     [err |-> None, rules |-> <<ViewerRule>>],
     [err |-> None, rules |-> <<PolicyRule({"*"}, {"list", "watch"}, {"*"}, {}),
                                PolicyRule({"clusters"}, {"get"}, {"other.io"}, {"local"})>>]}

InitCheck ==
    /\ MemberInit
    /\ rtbs = PRTBs
    /\ GrantEmpty
    /\ rtMeta = PlainMeta
    /\ \E rules \in CheckRuleLists, external \in BOOLEAN, native \in NativeRoles,
          resource \in {"clusters", "nodes"},
          apiGroup \in {"management.cattle.io", "other.io"} :
          fn = [op |-> "checkForManagementPlaneRules",
                role |-> [name |-> <<"viewer">>, rules |-> rules, external |-> external],
                native |-> native, resource |-> resource, apiGroup |-> apiGroup,
                out |-> NoObj]

\* checkForManagementPlaneRules(role, resource, apiGroup) returns; a failing
\* lister makes it return the error (lines 684-688).
CheckForManagementPlaneRules ==
    /\ fn.op = "checkForManagementPlaneRules"
    /\ fn.out = NoObj
    /\ fn' = [fn EXCEPT !.out =
                 IF fn.role.external /\ fn.native.err = "ServerError"
                 THEN [err |-> "ServerError", verbs |-> {}]
                 ELSE [err |-> None,
                       verbs |-> checkForManagementPlaneRules(fn.role, fn.resource, fn.apiGroup,
                                    [n \in {m \in {fn.role.name} : fn.native.err = None} |->
                                        fn.native.rules])]]
    /\ UNCHANGED <<memberVars, grantVars>>

NextCheck == CheckForManagementPlaneRules

SpecCheck == InitCheck /\ [][NextCheck]_vars

\* The rules the call is to look at: the native role's when the template
\* is External, the template's own otherwise.
RulesLookedAt == IF fn.role.external THEN fn.native.rules ELSE fn.role.rules

\* The rule lists the resource or the wildcard, has no resourceNames and
\* lists the API group or the wildcard.
Matches(rule, resource, apiGroup) ==
    /\ resource \in rule.resources \/ "*" \in rule.resources
    /\ rule.resourceNames = {}
    /\ apiGroup \in rule.apiGroups \/ "*" \in rule.apiGroups

Returned == fn.op = "checkForManagementPlaneRules" /\ fn.out # NoObj /\ fn.out.err = None

\* C18: checkForManagementPlaneRules returns exactly the verbs of the rules
\* (the template's own, or the same-named native role's when the template is
\* External) that list the resource or "*", have no resourceNames and list
\* the API group or "*"; the rule {clusters, get, management.cattle.io}
\* yields {get} for management.cattle.io and nothing for other.io.
C18_ReturnsVerbsOfMatchingRules ==
    Returned =>
        /\ \A v \in {"get", "list", "watch"} :
              v \in fn.out.verbs <=>
                  \E i \in 1 .. Len(RulesLookedAt) :
                      /\ Matches(RulesLookedAt[i], fn.resource, fn.apiGroup)
                      /\ v \in RulesLookedAt[i].verbs
        /\ fn.out.verbs \subseteq {"get", "list", "watch"}
        /\ (RulesLookedAt = <<ViewerRule>> /\ fn.resource = "clusters") =>
              fn.out.verbs = IF fn.apiGroup = "management.cattle.io" THEN {"get"} ELSE {}

\* The call has returned verbs taken from a rule that names the wildcard
\* group, for an External template among others.
C18_Witness ==
    /\ Returned
    /\ fn.role.external
    /\ fn.out.verbs = {"list", "watch"}
    /\ \E i \in 1 .. Len(RulesLookedAt) :
          /\ Matches(RulesLookedAt[i], fn.resource, fn.apiGroup)
          /\ "*" \in RulesLookedAt[i].apiGroups
    /\ \E i \in 1 .. Len(RulesLookedAt) : ~Matches(RulesLookedAt[i], fn.resource, fn.apiGroup)

(* ------------------- building rules and reading them ------------------- *)

\* The resource-to-verbs maps a Role is built from: some resources, each
\* with a non-empty set of verbs.
VerbMaps ==
    UNION {[rs -> (SUBSET {"get", "list", "watch"}) \ {{}}] :
              rs \in SUBSET {"apps", "nodes", "catalogtemplates"}}

InitRound ==
    /\ MemberInit
    /\ rtbs = PRTBs
    /\ GrantEmpty
    /\ rtMeta = PlainMeta
    /\ \E m \in VerbMaps, rev \in BOOLEAN :
          fn = [op |-> "build", map |-> m, rev |-> rev, out |-> NoObj, verbs |-> NoObj]

\* The rules of a new Role are built from the map (lines 757-761).
BuildRole ==
    /\ fn.op = "build"
    /\ fn' = [fn EXCEPT !.op = "read",
                        !.out = Role(<<"admin">>,
                                     BuildRules(fn.map, MapOrder(DOMAIN fn.map, fn.rev)))]
    /\ UNCHANGED <<memberVars, grantVars>>

\* The verbs of every resource of the map are read back from the rules of
\* the Role (lines 725-732).
ReadVerbs ==
    /\ fn.op = "read"
    /\ fn' = [fn EXCEPT !.op = "done",
                        !.verbs = [r \in DOMAIN fn.map |-> CurrentVerbs(fn.out.rules, r)]]
    /\ UNCHANGED <<memberVars, grantVars>>

NextRound == BuildRole \/ ReadVerbs

SpecRound == InitRound /\ [][NextRound]_vars

\* C19: the verbs read back, resource by resource, from the rules buildRule
\* made of a resource-to-verbs map with non-empty verb sets are the map.
C19_BuiltRulesReadBackAsTheMap ==
    fn.op = "done" =>
        /\ fn.verbs = fn.map
        /\ Len(fn.out.rules) = Cardinality(DOMAIN fn.map)

\* The round trip has been made for a map of several resources with
\* different verbs.
C19_Witness ==
    /\ fn.op = "done"
    /\ {"apps", "nodes"} \subseteq DOMAIN fn.map
    /\ fn.map["apps"] = {"get", "list"}
    /\ fn.map["nodes"] = {"watch"}
    /\ fn.verbs["apps"] = {"get", "list"}

(* ------------------------- order of iteration -------------------------- *)

\* Two sets of Roles are the same: the same Roles, each with the same verbs
\* for every resource.
SameRoles(x, y) ==
    \A t \in TemplateNames :
        IF x[t] = NoObj \/ y[t] = NoObj THEN x[t] = y[t]
        ELSE \A r \in DOMAIN ManagementPlaneResources :
                 CurrentVerbs(x[t].rules, r) = CurrentVerbs(y[t].rules, r)

\* What the pass for the binding leaves when its maps are ranged over in
\* the order rev.
PassInOrder(uid, rev) ==
    grantManagementPlanePrivileges(GWorld(0), Templates, ClusterRoles,
        GrantBindings[uid].roleTemplateName, ManagementPlaneResources,
        GrantBindings[uid].subject, GrantBindings[uid], rev)

\* C20: the store a successful pass leaves does not depend on the order the
\* expanded templates and the resource map are ranged over: from any state,
\* the passes for a binding in two orders, when both succeed, leave the same
\* Roles, with the same verbs per resource, and the same RoleBindings.
C20_PassIndependentOfIterationOrder ==
    \A uid \in GrantUIDs :
        LET a == PassInOrder(uid, FALSE)
            b == PassInOrder(uid, TRUE)
        IN (a.err = None /\ b.err = None) =>
               /\ SameRoles(a.roles, b.roles)
               /\ a.rbs = b.rbs

\* The passes in the two orders succeed from a state that a pass has been
\* run in before; they write Roles and RoleBindings, end with different
\* requests, and leave Roles whose rules are not in the same order.
C20_Witness ==
    /\ lastG.op = "grant"
    /\ LET a == PassInOrder("g1", FALSE)
           b == PassInOrder("g1", TRUE)
       IN /\ a.err = None
          /\ b.err = None
          /\ a.roles # b.roles
          /\ a.roles # mpRoles
          /\ a.rbs # mpRBs
          /\ a.tail # b.tail

(* -------------------- the graph walker, call by call ------------------- *)

\* The rtLister contents the calls are followed on: any templates, each
\* with any list, inheritance cycles included.
RecurGraphs ==
    {tm \in UNION {[present ->
                       [name : WalkNames, roleTemplateNames : InheritLists]] :
                   present \in SUBSET WalkNames} :
        \A x \in DOMAIN tm : tm[x].name = x}

\* stack holds one frame per call of gatherRoleTemplates that has not
\* returned: the template and the place in its list.
InitRecur ==
    /\ MemberInit
    /\ rtbs = PRTBs
    /\ GrantEmpty
    /\ rtMeta = PlainMeta
    /\ \E tm \in RecurGraphs, root \in WalkNames :
          fn = [op |-> "gatherRoleTemplates", tm |-> tm, root |-> root,
                stack |-> <<>>, roles |-> {}, called |-> FALSE, out |-> NoObj]

Top == fn.stack[Len(fn.stack)]

\* The list the innermost call ranges over.
Subs == fn.tm[Top.rt].roleTemplateNames

Running == fn.op = "gatherRoleTemplates" /\ fn.out = NoObj

\* gatherAndDedupeRoles fetches the root and calls gatherRoleTemplates
\* (lines 628-638).
Enter ==
    /\ Running
    /\ ~fn.called
    /\ fn' = IF fn.root \in DOMAIN fn.tm
             THEN [fn EXCEPT !.called = TRUE, !.roles = {fn.root},
                             !.stack = <<[rt |-> fn.root, i |-> 1]>>]
             ELSE [fn EXCEPT !.called = TRUE, !.out = [err |-> "NotFound", roles |-> {}]]
    /\ UNCHANGED <<memberVars, grantVars>>

\* A walker that does not descend into a template it has gathered already.
DescendUnseen ==
    /\ Running
    /\ fn.stack # <<>>
    /\ Top.i <= Len(Subs)
    /\ Subs[Top.i] \in DOMAIN fn.tm
    /\ fn' = IF Subs[Top.i] \in fn.roles
             THEN [fn EXCEPT !.stack[Len(fn.stack)].i = @ + 1]
             ELSE [fn EXCEPT !.roles = @ \cup {Subs[Top.i]},
                             !.stack = Append([fn.stack EXCEPT ![Len(fn.stack)].i = @ + 1],
                                              [rt |-> Subs[Top.i], i |-> 1])]
    /\ UNCHANGED <<memberVars, grantVars>>

\* The innermost call fetches the next name of its list and calls itself on
\* it (lines 779-784); the calls are followed down to MaxDepth.
Descend ==
    /\ Running
    /\ fn.stack # <<>>
    /\ Top.i <= Len(Subs)
    /\ Subs[Top.i] \in DOMAIN fn.tm
    /\ Len(fn.stack) < MaxDepth
    /\ fn' = [fn EXCEPT !.roles = @ \cup {Subs[Top.i]},
                        !.stack = Append([fn.stack EXCEPT ![Len(fn.stack)].i = @ + 1],
                                         [rt |-> Subs[Top.i], i |-> 1])]
    /\ UNCHANGED <<memberVars, grantVars>>

\* The innermost call cannot fetch the next name: it returns the error and
\* so does every call above it (lines 780-787, 638-640).
Fail ==
    /\ Running
    /\ fn.stack # <<>>
    /\ Top.i <= Len(Subs)
    /\ Subs[Top.i] \notin DOMAIN fn.tm
    /\ fn' = [fn EXCEPT !.stack = <<>>, !.out = [err |-> "NotFound", roles |-> {}]]
    /\ UNCHANGED <<memberVars, grantVars>>

\* The innermost call is through its list and returns nil (line 789); when
\* it is the outermost, gatherAndDedupeRoles returns the map (line 642).
Return ==
    /\ Running
    /\ fn.stack # <<>>
    /\ Top.i > Len(Subs)
    /\ fn' = IF Len(fn.stack) = 1
             THEN [fn EXCEPT !.stack = <<>>, !.out = [err |-> None, roles |-> fn.roles]]
             ELSE [fn EXCEPT !.stack = SubSeq(fn.stack, 1, Len(fn.stack) - 1)]
    /\ UNCHANGED <<memberVars, grantVars>>

NextRecur == Enter \/ Descend \/ Fail \/ Return

\* The goroutine that runs the walk keeps running.
SpecRecur == InitRecur /\ [][NextRecur]_vars /\ WF_vars(NextRecur)

\* Some template reached from the root inherits from itself.
CycleReachable(tm, root) ==
    \E x \in Reachable(tm, root) \cap DOMAIN tm :
        x \in ReachFrom(tm, Named(tm, x), Cardinality(WalkNames))

WalkReturned == fn.op = "gatherRoleTemplates" /\ fn.out # NoObj

\* The calls are nested as deep as they are followed.
WalkAtDepth == fn.op = "gatherRoleTemplates" /\ Len(fn.stack) = MaxDepth

\* C21 as stated: the walk returns on every graph without a cycle, and on a
\* graph with a cycle reachable from the root it nests its calls without
\* bound and never returns.
C21_WalkNeverReturnsOnCycle ==
    /\ ~CycleReachable(fn.tm, fn.root) => <>WalkReturned
    /\ CycleReachable(fn.tm, fn.root) => ([]~WalkReturned /\ <>WalkAtDepth)

\* C21: the walk returns on every graph without a cycle reachable from the
\* root; on a graph with such a cycle, and with every template reached from
\* the root present, it nests its calls without bound and never returns.
C21_WalkNeverReturnsOnCycleAllPresent ==
    /\ ~CycleReachable(fn.tm, fn.root) => <>WalkReturned
    /\ (CycleReachable(fn.tm, fn.root) /\ Reachable(fn.tm, fn.root) \subseteq DOMAIN fn.tm)
           => ([]~WalkReturned /\ <>WalkAtDepth)

\* The calls are nested to the depth followed on a graph whose cycle goes
\* through two templates.
C21_Witness ==
    /\ WalkAtDepth
    /\ ~WalkReturned
    /\ fn.root \notin Named(fn.tm, fn.root)
    /\ CycleReachable(fn.tm, fn.root)
    /\ Reachable(fn.tm, fn.root) \subseteq DOMAIN fn.tm

(* --------------------------- waitUntilSSHKey --------------------------- *)

\* Seconds after which waitUntilSSHKey gives up.
KeyTimeout == 15

\* now counts the seconds since startTime; key tells whether the key file
\* exists and keyAt the second it was written in (-1 before); slept lists
\* the sleeps made.
InitWait ==
    /\ MemberInit
    /\ rtbs = PRTBs
    /\ GrantEmpty
    /\ rtMeta = PlainMeta
    /\ \E key \in BOOLEAN :
          fn = [op |-> "waitUntilSSHKey", pc |-> "after", now |-> 0, increments |-> 1,
                key |-> key, keyAt |-> IF key THEN 0 ELSE -1,
                slept |-> <<>>, out |-> NoObj]

Waiting == fn.op = "waitUntilSSHKey" /\ fn.out = NoObj

\* An After that is true already when the ceiling is reached.
AfterOrAt(now) == now >= KeyTimeout

\* time.Now().After(startTime.Add(15 * time.Second))
After(now) == now > KeyTimeout

\* The machine driver writes the key file.
KeyWritten ==
    /\ Waiting
    /\ ~fn.key
    /\ fn' = [fn EXCEPT !.key = TRUE, !.keyAt = fn.now]
    /\ UNCHANGED <<memberVars, grantVars>>

\* The head of the loop: the timeout check (lines 333-335).
CheckTimeout ==
    /\ Waiting
    /\ fn.pc = "after"
    /\ fn' = IF After(fn.now)
             THEN [fn EXCEPT !.out = [err |-> "Timeout waiting for ssh key"]]
             ELSE [fn EXCEPT !.pc = "stat"]
    /\ UNCHANGED <<memberVars, grantVars>>

\* os.Stat(keyPath) (lines 336, 342).
StatKey ==
    /\ Waiting
    /\ fn.pc = "stat"
    /\ fn' = IF fn.key THEN [fn EXCEPT !.out = [err |-> None]]
             ELSE [fn EXCEPT !.pc = "sleep"]
    /\ UNCHANGED <<memberVars, grantVars>>

\* time.Sleep(increments seconds), which lasts at least that long, and the
\* doubling of increments (lines 338-340).
Sleep(overrun) ==
    /\ Waiting
    /\ fn.pc = "sleep"
    /\ fn' = [fn EXCEPT !.pc = "after",
                        !.now = @ + fn.increments + overrun,
                        !.increments = @ * 2,
                        !.slept = Append(@, fn.increments)]
    /\ UNCHANGED <<memberVars, grantVars>>

NextWait ==
    \/ KeyWritten
    \/ CheckTimeout
    \/ StatKey
    \/ \E overrun \in 0 .. MaxOverrun : Sleep(overrun)

\* The goroutine keeps running and its sleeps end.
SpecWait ==
    /\ InitWait
    /\ [][NextWait]_vars
    /\ WF_vars(CheckTimeout \/ StatKey \/ \E overrun \in 0 .. MaxOverrun : Sleep(overrun))

RECURSIVE Pow2(_)
Pow2(n) == IF n = 0 THEN 1 ELSE 2 * Pow2(n - 1)

\* C22: waitUntilSSHKey always returns; it returns success only with the
\* key file there, the timeout error only when more than 15 seconds have
\* passed since it started, and its sleeps are of 1, 2, 4, ... seconds.
C22_WaitEndsAfterDoublingSleeps ==
    /\ <>(fn.op = "waitUntilSSHKey" /\ fn.out # NoObj)
    /\ [](fn.op = "waitUntilSSHKey" =>
             /\ \A i \in 1 .. Len(fn.slept) : fn.slept[i] = Pow2(i - 1)
             /\ fn.out # NoObj =>
                   IF fn.out.err = None THEN fn.key ELSE fn.now > KeyTimeout)

\* The call has given up after sleeping 1, 2, 4, 8 and 16 seconds, the last
\* sleep begun at the fifteenth second exactly.
C22_Witness ==
    /\ fn.op = "waitUntilSSHKey"
    /\ fn.out # NoObj
    /\ fn.out.err # None
    /\ fn.slept = <<1, 2, 4, 8, 16>>
    /\ fn.now = 31

(* ----------------------------- reportStatus ---------------------------- *)

\* What a line of the subprocess may be: plain text, a line with the debug
\* prefix, one with "To see how to connect", one with the marker
\* errorCreatingNode, one with both, or a line too long for the Scanner.
LineKinds == {"plain", "debug", "connect", "marker", "connectMarker", "long"}

ErrLineKinds == {"plain", "long"}

\* The lines of a stream: the n-th line of kind k reads <<stream, n, k>>.
Lines(stream, kinds) ==
    UNION {{[i \in 1 .. n |-> [kind |-> ks[i], text |-> <<stream, i, ks[i]>>]] :
               ks \in [1 .. n -> kinds]} : n \in 0 .. MaxLines}

\* The node as the store holds it and as an empty answer of a failed Get.
StoredNode == [name |-> "m1", message |-> <<>>]

EmptyNode == [name |-> "", message |-> <<>>]

\* A nil *v3.Node.
NilNode == [name |-> "", message |-> <<>>, nil |-> TRUE]

IsNil(node) == node = NilNode

\* What nodeClient.Get hands back: the stored node, or, with the error that
\* is dropped, an empty object or nil, as the client behind the interface
\* has it.
GetAnswers == {"object", "empty", "nil"}

\* A nil error; an error is the text it carries.
NoError == <<>>

InitReport ==
    /\ MemberInit
    /\ rtbs = PRTBs
    /\ GrantEmpty
    /\ rtMeta = PlainMeta
    /\ \E out \in Lines("stdout", LineKinds), err \in Lines("stderr", ErrLineKinds) :
          fn = [op |-> "reportStatus", stdout |-> out, stderr |-> err, i |-> 1,
                node |-> StoredNode, store |-> StoredNode, log |-> <<>>, out |-> NoObj]

\* scanner.Scan(): there is a next line and it fits the Scanner's buffer.
Scan(lines, i) == i <= Len(lines) /\ lines[i].kind # "long"

\* strings.Contains(msg, errorCreatingNode)
ContainsMarker(line) == line.kind \in {"marker", "connectMarker"}

\* strings.Contains(msg, "To see how to connect")
ContainsConnect(line) == line.kind \in {"connect", "connectMarker"}

\* strings.HasPrefix(msg, debugPrefix)
HasDebugPrefix(line) == line.kind = "debug"

\* strings.Contains(msg, node.Spec.RequestedHostname): the debug prefix
\* holds the hostname.
ContainsHostname(line) == line.kind = "debug"

filterDockerMessage(line) ==
    IF ContainsMarker(line) THEN [msg |-> <<>>, err |-> line.text]
    ELSE IF ContainsHostname(line) THEN [msg |-> <<>>, err |-> NoError]
         ELSE [msg |-> line.text, err |-> NoError]

\* An Update whose failure is returned to the caller.
UpdateNodeOrReturn(f, node, upd, get) ==
    IF upd /\ node.name # ""
    THEN [f EXCEPT !.node = node, !.store = node, !.i = @ + 1,
                   !.log = Append(@, [i |-> f.i, updated |-> TRUE, fetched |-> FALSE])]
    ELSE [f EXCEPT !.out = [err |-> <<"UpdateFailed">>, node |-> node],
                   !.log = Append(@, [i |-> f.i, updated |-> FALSE, fetched |-> FALSE])]

\* nodeClient.Update(node) and, when it fails, nodeClient.Get (lines 235-240);
\* upd tells whether the store serves the Update and get what Get hands
\* back; the store serves neither for a node without a name.
UpdateNode(f, node, upd, get) ==
    IF upd /\ node.name # ""
    THEN [f EXCEPT !.node = node, !.store = node, !.i = @ + 1,
                   !.log = Append(@, [i |-> f.i, updated |-> TRUE, fetched |-> FALSE])]
    ELSE [f EXCEPT !.node = IF get = "object" /\ node.name # "" THEN f.store
                            ELSE IF get = "nil" THEN NilNode ELSE EmptyNode,
                   !.i = @ + 1,
                   !.log = Append(@, [i |-> f.i, updated |-> FALSE, fetched |-> TRUE])]

Reporting == fn.op = "reportStatus" /\ fn.out = NoObj

InStdout == Reporting /\ fn.i <= Len(fn.stdout) + 1

\* One round of the loop over standard output (lines 216-241); on a nil
\* node, node.Spec.RequestedHostname in filterDockerMessage is a nil
\* dereference.
ScanStdout(upd, get) ==
    /\ InStdout
    /\ Scan(fn.stdout, fn.i)
    /\ LET line == fn.stdout[fn.i]
           node == IF HasDebugPrefix(line) THEN fn.node
                   ELSE [fn.node EXCEPT !.message = line.text]
       IN fn' = IF ContainsConnect(line) THEN [fn EXCEPT !.i = @ + 1]
                ELSE IF filterDockerMessage(line).err # NoError
                     THEN [fn EXCEPT !.out = [err |-> filterDockerMessage(line).err,
                                              node |-> fn.node]]
                     ELSE IF IsNil(fn.node)
                          THEN [fn EXCEPT !.out = [err |-> <<"panic">>, node |-> fn.node]]
                          ELSE UpdateNode(fn, node, upd, get)
    /\ UNCHANGED <<memberVars, grantVars>>

\* The Scanner of standard output stops; the first line of standard error,
\* if the Scanner yields one, is returned as the error (lines 242-247).
ScanStderr ==
    /\ InStdout
    /\ ~Scan(fn.stdout, fn.i)
    /\ fn' = [fn EXCEPT !.i = Len(fn.stdout) + 2,
                        !.out = [err |-> IF Scan(fn.stderr, 1) THEN fn.stderr[1].text ELSE NoError,
                                 node |-> fn.node]]
    /\ UNCHANGED <<memberVars, grantVars>>

NextReport ==
    \/ \E upd \in BOOLEAN, get \in GetAnswers : ScanStdout(upd, get)
    \/ ScanStderr

SpecReport == InitReport /\ [][NextReport]_vars

Reported == fn.op = "reportStatus" /\ fn.out # NoObj

\* The standard-output lines that contain the marker.
MarkerLines == {j \in 1 .. Len(fn.stdout) : ContainsMarker(fn.stdout[j])}

\* C23: reportStatus returns an error carrying the first standard-error line
\* whenever standard error is not empty, returns an error as soon as a
\* standard-output line contains the marker, and returns no error when
\* there is no marker and standard error is empty.
C23_ErrorFromStderrOrMarker ==
    Reported =>
        /\ fn.stderr # <<>> => fn.out.err = fn.stderr[1].text
        /\ MarkerLines # {} =>
              /\ fn.out.err # NoError
              /\ \A k \in 1 .. Len(fn.log) : \A j \in MarkerLines : fn.log[k].i < j
        /\ (MarkerLines = {} /\ fn.stderr = <<>>) => fn.out.err = NoError

\* C26: a status update of the node that fails never ends reportStatus and
\* never becomes its result: the node is fetched again and the next line
\* of output is taken up.
C26_UpdateFailureSwallowed ==
    fn.op = "reportStatus" =>
        /\ \A k \in 1 .. Len(fn.log) :
              ~fn.log[k].updated => (fn.log[k].fetched /\ fn.i > fn.log[k].i)
        /\ fn.out # NoObj => fn.out.err # <<"UpdateFailed">>

\* reportStatus has returned no error after an update that failed on the
\* first line and an update that went through on the second, whose message
\* the node returned carries.
C26_Witness ==
    /\ Reported
    /\ fn.out.err = NoError
    /\ Len(fn.log) = 2
    /\ ~fn.log[1].updated
    /\ fn.log[2].updated
    /\ fn.out.node = [name |-> "m1", message |-> <<"stdout", 2, "plain">>]
    /\ fn.store = fn.out.node

(* --------------------- membership roles: the claims -------------------- *)

\* C24: when the store holds a membership role of the name at the call of
\* EnsureMembership, the call leaves the role as it is, whatever makeOwner:
\* no Create of the role goes through, a role made with get keeps get and
\* one made with "*" keeps "*".
C24_ExistingRoleKeptWhateverMakeOwner ==
    (fn.op = "ensure" /\ fn.had # None) =>
        /\ roleStore[last.role] = fn.had
        /\ \A i \in 1 .. Len(last.log) : last.log[i] # <<"createRole", last.role>>

\* A call with makeOwner = TRUE has returned no error for a role that was
\* made with get, and has left it get.
C24_Witness ==
    /\ fn.op = "ensure"
    /\ fn.had = "get"
    /\ fn.makeOwner
    /\ last.err = None
    /\ roleStore[last.role] = "get"

(* ------------------------- the caches: claims -------------------------- *)

\* C25: no operation modifies an object held by an indexer or lister: a
\* cached binding changes only when the informer delivers the object of the
\* store, so that after a store write that failed the cached objects are
\* what they were before the call.
C25_CachedObjectsNeverModified ==
    [][\A id \in BindingIds :
          \/ rbCache'[id] = rbCache[id]
          \/ rbCache'[id] = Cached(rbStore'[id])]_vars

(* ------------- EnsureMembership over any content of the index ---------- *)

\* The subject lists a binding found in the store may carry: the API
\* accepts a binding without subjects.
SubjectLists ==
    UNION {[1 .. n -> {"s1", "s2"}] : n \in 0 .. MaxSubjects}

\* A membership binding written by another client of the store, tagged with
\* the UID of a RoleTemplateBinding, is in the store and in the cache when
\* the controller starts.
InitIndex ==
    /\ rtbs \in {PRTBs, CRTBs}
    /\ \E role \in MembershipRoles(rtbs["u1"].kind), subjects \in SubjectLists,
          uid \in UIDs :
          LET found == [kind |-> rtbs["u1"].kind, ns |-> rtbs["u1"].ns, role |-> role,
                        subjects |-> subjects,
                        labels |-> {<<uid, membershipBindingOwner>>}]
          IN  /\ rbStore = [id \in BindingIds |-> IF id = 1 THEN found ELSE NoObj]
              /\ rbCache = [id \in BindingIds |-> Cached(rbStore[id])]
    /\ dirty = {}
    /\ nextId = 2
    /\ roleStore = [r \in RoleNames |-> None]
    /\ roleCache = [r \in RoleNames |-> None]
    /\ removed = {}
    /\ last = NoCall
    /\ GrantInit

NextIndex ==
    \/ \E rtbUID \in UIDs, roleName \in RoleNames, makeOwner \in BOOLEAN,
          failAt \in 0 .. 1, order \in Orders :
          EnsureMembership(rtbUID, roleName, makeOwner, failAt, order)
    \/ Sync

SpecIndex == InitIndex /\ [][NextIndex]_vars

\* The last call indexed the first subject of a binding that has none.
Crashed == last.op = "ensure" /\ last.err = "panic"

\* C28: EnsureMembership completes, with success or with an error value,
\* whatever the membership-owner index holds: it never indexes a subject of
\* an empty subject list.
C28_EnsureCompletesOnAnyIndex == ~Crashed

(* ------ EnsureMembership interleaved with reconcile-for-delete --------- *)

\* The member roles: a RoleTemplateBinding that stays with one role has
\* nothing to reconcile away in its own Ensure call.
MemberRoles == {"p1-projectmember", "c1-clustermember"}

\* The store requests a call has applied, as the set of ids written.
Written(log) == {log[i][2] : i \in 1 .. Len(log)}

\* The RoleTemplateBinding rtbUID has been deleted and its handler has read
\* the bindings indexed under rtbUID: fn keeps what the indexer held.
ListForDelete(rtbUID, order) ==
    /\ fn = NoFn
    /\ rtbUID \notin removed
    /\ fn' = [op |-> "reconcile", uid |-> rtbUID, order |-> order, seen |-> rbCache]
    /\ removed' = removed \cup {rtbUID}
    /\ UNCHANGED <<rtbs, rbStore, rbCache, dirty, nextId, roleStore, roleCache, last>>
    /\ UNCHANGED grantVars

\* The world the loop of a handler runs in when it read the index earlier:
\* the objects it holds are the ones it listed, and an object the informer
\* has replaced since carries an old resourceVersion.
WorldSeen(seen) ==
    [World(0) EXCEPT !.ca = seen,
                     !.dirty = dirty \cup {id \in BindingIds : rbCache[id] # seen[id]}]

\* What the loop leaves behind: its writes in the store, and its changes
\* of the listed objects in the cache where the cache still holds them.
Merged(w, seen) ==
    [w EXCEPT !.ca = [id \in BindingIds |->
                         IF rbCache[id] = seen[id] THEN w.ca[id] ELSE rbCache[id]],
              !.dirty = dirty \cup Written(w.log)]

\* The loop of reconcile-for-delete over the bindings listed earlier.
LoopForDelete ==
    /\ fn.op = "reconcile"
    /\ Effects(Merged(IF rtbs[fn.uid].kind = "RoleBinding"
                      THEN reconcileProjectMembershipBindingForDelete(WorldSeen(fn.seen),
                               rtbs[fn.uid].ns, "", fn.uid, fn.order)
                      ELSE reconcileClusterMembershipBindingForDelete(WorldSeen(fn.seen),
                               "", fn.uid, fn.order),
                      fn.seen),
               "delete", fn.uid, "")
    /\ fn' = NoFn
    /\ UNCHANGED <<rtbs, removed>>

NextInterleave ==
    \/ \E rtbUID \in UIDs, roleName \in MemberRoles, failAt \in 0 .. 1, order \in Orders :
          EnsureMembership(rtbUID, roleName, FALSE, failAt, order)
    \/ \E rtbUID \in UIDs, order \in Orders : ListForDelete(rtbUID, order)
    \/ LoopForDelete
    \/ Sync

SpecInterleave == Init /\ [][NextInterleave]_vars

\* The store holds the binding id with the ownership label of rtbUID.
Holds(st, id, rtbUID) == st[id] # NoObj /\ Owns(st[id], rtbUID)

\* C29: when reconcile-for-delete for a binding Y interleaves with
\* EnsureMembership for another binding X on a shared membership binding,
\* the loop of Y never takes away a membership binding that carries X's
\* label while X's RoleTemplateBinding exists: the store holds it with X's
\* label afterwards.
C29_SharedBindingSurvivesInterleaving ==
    [][(fn.op = "reconcile" /\ fn'.op # "reconcile")
          => \A rtbUID \in UIDs \ removed, id \in BindingIds :
                 Holds(rbStore, id, rtbUID) => Holds(rbStore', id, rtbUID)]_vars

(* ------------- what a pass that returned nil has granted --------------- *)

\* The store holds, under the computed name, a RoleBinding of the binding's
\* subject to the Role of the template t.
Bound(uid, t) ==
    LET rb == mpRBs[DashJoin(GrantBindings[uid].name, t)]
    IN  /\ rb # NoObj
        /\ rb.subject = GrantBindings[uid].subject
        /\ rb.roleRef = t

\* The last pass was for uid and returned nil, and no RoleTemplate has been
\* edited since.
Granted(uid) == lastG.op = "grant" /\ lastG.uid = uid /\ lastG.err = None

\* C30: when a pass of grantManagementPlanePrivileges has returned without
\* error, the namespace holds, for every template of the expansion that
\* grants a verb on a supplied resource, the RoleBinding named binding-name
\* + template-name whose subject is the binding's subject and whose RoleRef
\* is the template's Role; also with several (binding, template) pairs in
\* the namespace and after a Create answered AlreadyExists.
C30_NilPassLeavesEveryRoleBinding ==
    \A uid \in GrantUIDs : Granted(uid) => \A t \in Granting(uid) : Bound(uid, t)

(* ------------------------ ClusterActionHandler ------------------------- *)

ClusterActionRotateEncryptionKey == "rotateEncryptionKey"

ClusterActionRotateCertificates == "rotateCertificates"

\* The action names a request may carry: two the handler knows and one it
\* does not.
ActionNames ==
    {ClusterActionRotateEncryptionKey, ClusterActionRotateCertificates, "bogus"}

\* The clusters a request may name. Spec.RancherKubernetesEngineConfig is a
\* pointer that is nil for a cluster not provisioned by RKE; within it,
\* Services.KubeAPI.SecretsEncryptionConfig is nil, or carries Enabled.
Clusters ==
    {[rke |-> FALSE, encryption |-> "nil", rotate |-> FALSE],
     [rke |-> TRUE, encryption |-> "nil", rotate |-> FALSE],
     [rke |-> TRUE, encryption |-> "disabled", rotate |-> FALSE],
     [rke |-> TRUE, encryption |-> "enabled", rotate |-> FALSE]}

\* The request a.RotateEncryptionKey finds the store refusing, if any.
RotateFailures == {None, "get", "backup", "update"}

InitAction ==
    /\ MemberInit
    /\ rtbs = PRTBs
    /\ GrantEmpty
    /\ rtMeta = PlainMeta
    /\ \E actionName \in ActionNames, canUpdate \in BOOLEAN, canBackup \in BOOLEAN,
          getFails \in BOOLEAN, cluster \in Clusters, rotateFails \in RotateFailures :
          fn = [op |-> "action", pc |-> "called", actionName |-> actionName,
                canUpdateCluster |-> canUpdate, canBackupEtcd |-> canBackup,
                getFails |-> getFails, rotateFails |-> rotateFails,
                cluster |-> cluster, after |-> cluster, backup |-> FALSE,
                trace |-> <<>>, err |-> None]

\* secretEncryptionEnabled: the error of ClusterClient.Get, or whether the
\* cluster carries an enabled SecretsEncryptionConfig; the selector chain
\* goes through Spec.RancherKubernetesEngineConfig without a nil test.
secretEncryptionEnabled(r) ==
    IF r.getFails THEN [enabled |-> FALSE, err |-> "GetFailed"]
    ELSE IF ~r.cluster.rke THEN [enabled |-> FALSE, err |-> "nilDereference"]
    ELSE [enabled |-> r.cluster.encryption = "enabled", err |-> None]

\* a.RotateEncryptionKey: fetch the cluster, create the etcd backup, set
\* RotateEncryptionKey on the cluster and update it.
RotateEncryptionKey(r) ==
    LET t == Append(r.trace, "RotateEncryptionKey") IN
    IF r.rotateFails = "get"
    THEN [r EXCEPT !.trace = t, !.err = "failed to get cluster"]
    ELSE IF r.rotateFails = "backup"
    THEN [r EXCEPT !.trace = t, !.err = "failed to create etcdbackup"]
    ELSE IF r.rotateFails = "update"
    THEN [r EXCEPT !.trace = t, !.backup = TRUE, !.err = "unable to update cluster"]
    ELSE [r EXCEPT !.trace = t, !.backup = TRUE, !.after.rotate = TRUE]

\* case v32.ClusterActionRotateEncryptionKey of the switch.
RotateEncryptionKeyCase(r) ==
    LET r1 == [r EXCEPT !.trace = Append(@, "canUpdateCluster")] IN
    IF ~r.canUpdateCluster THEN [r1 EXCEPT !.err = "PermissionDenied"]
    ELSE
        LET r2 == [r1 EXCEPT !.trace = Append(@, "secretEncryptionEnabled")]
            e == secretEncryptionEnabled(r)
        IN  IF e.err = "nilDereference" THEN [r2 EXCEPT !.err = "panic"]
            ELSE IF e.err # None THEN [r2 EXCEPT !.err = "ClusterUnavailable"]
            ELSE IF ~e.enabled THEN [r2 EXCEPT !.err = "InvalidAction"]
            ELSE
                LET r3 == [r2 EXCEPT !.trace = Append(@, "canBackupEtcd")] IN
                IF ~r.canBackupEtcd THEN [r3 EXCEPT !.err = "PermissionDenied"]
                ELSE RotateEncryptionKey(r3)

\* case v32.ClusterActionRotateCertificates of the switch; what
\* a.RotateCertificates does is not followed.
RotateCertificatesCase(r) ==
    LET r1 == [r EXCEPT !.trace = Append(@, "canUpdateCluster")] IN
    IF ~r.canUpdateCluster THEN [r1 EXCEPT !.err = "PermissionDenied"]
    ELSE [r1 EXCEPT !.trace = Append(@, "RotateCertificates")]

\* The handler serves the request.
ClusterActionHandler ==
    /\ fn.op = "action"
    /\ fn.pc = "called"
    /\ fn' = [(IF fn.actionName = ClusterActionRotateEncryptionKey
               THEN RotateEncryptionKeyCase(fn)
               ELSE IF fn.actionName = ClusterActionRotateCertificates
               THEN RotateCertificatesCase(fn)
               ELSE [fn EXCEPT !.err = "NotFound"])
              EXCEPT !.pc = "returned"]
    /\ UNCHANGED <<memberVars, grantVars>>

NextAction == ClusterActionHandler

SpecAction == InitAction /\ [][NextAction]_vars

\* The handler has returned from a request for the action.
Served(actionName) ==
    fn.op = "action" /\ fn.pc = "returned" /\ fn.actionName = actionName

\* Secret encryption is enabled on the cluster, and the cluster can be read.
EncryptionEnabled == ~fn.getFails /\ fn.cluster.rke /\ fn.cluster.encryption = "enabled"

\* The call stopped after the checks in `checks` with one of the errors
\* in `errs`, and left the cluster and its backups alone.
StoppedAt(checks, errs) ==
    /\ fn.trace = checks
    /\ fn.err \in errs
    /\ fn.after = fn.cluster
    /\ ~fn.backup

\* C27: RotateEncryptionKey is invoked only after the three checks passed in
\* the order update permission, encryption enabled, backup permission; a
\* failed check returns its error (PermissionDenied, ClusterUnavailable or
\* InvalidAction, PermissionDenied) without a later check being evaluated
\* and without the cluster being modified; an unknown action name returns
\* NotFound.
C27_RotateOnlyAfterThreeChecks ==
    /\ Served(ClusterActionRotateEncryptionKey) =>
          /\ ~fn.canUpdateCluster =>
                StoppedAt(<<"canUpdateCluster">>, {"PermissionDenied"})
          /\ (fn.canUpdateCluster /\ ~EncryptionEnabled) =>
                StoppedAt(<<"canUpdateCluster", "secretEncryptionEnabled">>,
                          {"ClusterUnavailable", "InvalidAction"})
          /\ (fn.canUpdateCluster /\ EncryptionEnabled /\ ~fn.canBackupEtcd) =>
                StoppedAt(<<"canUpdateCluster", "secretEncryptionEnabled",
                            "canBackupEtcd">>, {"PermissionDenied"})
          /\ (fn.canUpdateCluster /\ EncryptionEnabled /\ fn.canBackupEtcd) =>
                fn.trace = <<"canUpdateCluster", "secretEncryptionEnabled",
                             "canBackupEtcd", "RotateEncryptionKey">>
    /\ Served("bogus") => StoppedAt(<<>>, {"NotFound"})

(* ------ two passes reconciling the same management-plane Role ---------- *)

\* The Role both passes reconcile: the one of the RoleTemplate admin, in
\* the namespace both bindings grant in.
SharedRole == <<"admin">>

\* The two invocations, and the resource each computes verbs for.
Passes == {"a", "b"}

PassResource == [a |-> "apps", b |-> "nodes"]

\* The verb sets a pass may have computed for its resource.
VerbSets == {{"get"}, {"list"}, {"get", "list"}}

\* The Role as the store and the lister hold it when the passes begin:
\* absent, or with a rule for one of the resources.
StartRoles ==
    {NoObj,
     Role(SharedRole, <<buildRule("apps", {"get"})>>),
     Role(SharedRole, <<buildRule("nodes", {"get"})>>)}

InitRace ==
    /\ MemberInit
    /\ rtbs = PRTBs
    /\ rtMeta = PlainMeta
    /\ rtRules = [t \in TemplateNames |-> NoRules]
    /\ \E start \in StartRoles :
          /\ mpRoles = [t \in TemplateNames |-> IF t = SharedRole THEN start ELSE NoObj]
          /\ mpRolesCa = mpRoles
    /\ mpDirty = {}
    /\ mpRBs = [n \in RBNames |-> NoObj]
    /\ mpRBsCa = [n \in RBNames |-> NoObj]
    /\ lastG = NoGrant
    /\ \E va \in VerbSets, vb \in VerbSets, rev \in BOOLEAN :
          fn = [op |-> "race", rev |-> rev,
                verbs |-> [a |-> va, b |-> vb],
                pc |-> [p \in Passes |-> "called"],
                seen |-> [p \in Passes |-> NoObj],
                err |-> [p \in Passes |-> None]]

\* resourceToVerbs of the pass p.
PassVerbs(p) == [r \in {PassResource[p]} |-> fn.verbs[p]]

\* m.rLister.Get(namespace, rt.Name): the pass takes the cached copy.
GetRole(p) ==
    /\ fn.op = "race"
    /\ fn.pc[p] = "called"
    /\ fn' = [fn EXCEPT !.pc[p] = "read", !.seen[p] = mpRolesCa[SharedRole]]
    /\ UNCHANGED <<memberVars, grantVars>>

\* The world the rest of reconcileManagementPlaneRole runs in: the lister's
\* answer is the copy taken, whose resourceVersion is old once the store
\* holds another object.
RaceWorld(p) ==
    [GWorld(0) EXCEPT !.rolesCa[SharedRole] = fn.seen[p],
                      !.rdirty = IF fn.seen[p] # mpRoles[SharedRole]
                                 THEN {SharedRole} ELSE {}]

\* The pass computes the new rules from its copy and issues the Update, or
\* the Create when the lister had no Role, and returns.
PutRole(p) ==
    \E w \in {reconcileManagementPlaneRole(RaceWorld(p), PassVerbs(p), SharedRole, fn.rev)} :
       /\ fn.op = "race"
       /\ fn.pc[p] = "read"
       /\ mpRoles' = w.roles
       /\ mpDirty' = IF w.roles # mpRoles THEN mpDirty \cup {SharedRole} ELSE mpDirty
       /\ fn' = [fn EXCEPT !.pc[p] = "returned", !.err[p] = w.err]
       /\ UNCHANGED <<memberVars, rtRules, mpRolesCa, mpRBs, mpRBsCa, lastG, rtMeta>>

NextRace ==
    \/ \E p \in Passes : GetRole(p)
    \/ \E p \in Passes : PutRole(p)
    \/ SyncGrant

SpecRace == InitRace /\ [][NextRace]_vars

\* Both passes have completed, and they started from the same cached copy.
BothCompleted ==
    /\ fn.op = "race"
    /\ \A p \in Passes : fn.pc[p] = "returned"
    /\ fn.seen["a"] = fn.seen["b"]

\* The Role in the store holds the verb set the pass p computed.
HoldsVerbs(p) ==
    /\ mpRoles[SharedRole] # NoObj
    /\ CurrentVerbs(mpRoles[SharedRole].rules, PassResource[p]) = fn.verbs[p]

\* C31: when two passes for distinct bindings reconcile the same Role from
\* the same cached copy, each for its own resource, no verb set is lost:
\* once both have completed the Role holds the verb sets both computed.
C31_NoVerbSetLost == BothCompleted => \A p \in Passes : HoldsVerbs(p)

(* --------------- the key file written before the ceiling --------------- *)

\* waitUntilSSHKey has returned.
WaitReturned == fn.op = "waitUntilSSHKey" /\ fn.out # NoObj

\* The key file came into existence before 15 seconds had elapsed since the
\* call started, and has stayed.
KeyInTime == fn.key /\ fn.keyAt < KeyTimeout

\* C32: if the key file comes into existence before 15 seconds have elapsed
\* since waitUntilSSHKey started, and stays, waitUntilSSHKey returns success
\* and not the timeout error.
C32_KeyInTimeMeansSuccess == (WaitReturned /\ KeyInTime) => fn.out.err = None

(* ------------------- the node reportStatus works on -------------------- *)

\* C33: the node reportStatus processes the output lines against is never
\* nil, also after a status update and the re-fetch that follows have both
\* failed: no line meets a nil node, and the node returned is not nil.
C33_NodeNeverNil ==
    fn.op = "reportStatus" =>
        /\ ~IsNil(fn.node)
        /\ Reported => (~IsNil(fn.out.node) /\ fn.out.err # <<"panic">>)

====
